---- MODULE Spec2Model ----
(***************************************************************************)
(* State-machine model of the MAAS agent deployment workflows              *)
(* (maasagent/internal/deploy/workflow.go): Deploy and its child workflows *)
(* AllocateIPs, DeployEphemeralOS and DeployInstalledOS, together with the *)
(* signal mailboxes they block on (maasagent/internal/workflow/signals.go, *)
(* HandleSignal).  Each registered workflow can be the root of an          *)
(* execution; Deploy runs the other three as children.  A second           *)
(* specification models the worker pool (WorkerPool.AddWorker,             *)
(* WorkerPool.RemoveWorkers) as DeployService.Configure reprograms it.     *)
(***************************************************************************)
EXTENDS Integers, Sequences, FiniteSets, TLC

VARIABLES
    root,               \* name of the registered workflow being executed
    input,              \* DeployInput of the execution (zero value for other roots)
    pc,                 \* position of the execution
    powerParamsFuture,  \* Deploy: future of get-power-params
    userInfoFuture,     \* Deploy: future of get-user-info
    powerParams,        \* Deploy: var powerParams GetPowerParamsResult
    userInfo,           \* Deploy: var userInfo GetUserInfoResult
    diskStatus,         \* Deploy: var diskStatus CheckDiskStatusResult
    deployParams,       \* Deploy: var deployParams SetDeployParamsResult
    childInput,         \* input record of the running child workflow
    proposedIPs,        \* AllocateIPs: var proposedIPs ProposeIPResult
    checkIPResult,      \* AllocateIPs: var checkIPResult (in-use addresses)
    claimIPs,           \* AllocateIPs: var claimIPs ClaimIPsInput
    leaseSig,           \* checkForBootInterfaceLease: var leaseSig
    bootAssets,         \* checkAllBootAssets: the bootAssets slice (array, len)
    consumed,           \* events received by the running sub-flow (history)
    mailbox,            \* signal channels: channel name -> buffered events
    closed,             \* signal channels that have been closed
    owed,               \* events the booting machine still has to send
    extra,              \* number of unsolicited environment steps so far
    calls,              \* remote operations issued so far (history)
    completed,          \* child workflows / phases that returned nil (history)
    err,                \* error returned by the root workflow
    workers,            \* WorkerPool.workers: group -> its workers, in order
    created,            \* workers constructed so far, in order (history)
    cfg,                \* the executions of DeployService.Configure
    mutex,              \* WorkerPool.mutex: 0 when free, else the holder
    thr,                \* goroutines calling AddWorker / RemoveWorkers
    ncalls,             \* pool calls made by the goroutines so far
    log,                \* pool calls of the goroutines that returned (history)
    fatal,              \* WorkerPool.fatal: the channel of fatal errors
    reports,            \* fatal errors whose callback is sending on fatal
    errorCall,          \* the caller of WorkerPool.Error()
    main,               \* WorkerPool.main: the worker of the control plane
    running,            \* DHCPService.running
    dhcp,               \* the configure-dhcp-service execution: its position
    dhcpLog             \* the configure calls and the step bodies that ran

vars == <<root, input, pc, powerParamsFuture, userInfoFuture, powerParams,
          userInfo, diskStatus, deployParams, childInput, proposedIPs,
          checkIPResult, claimIPs, leaseSig, bootAssets, consumed, mailbox,
          closed, owed, extra, calls, completed, err, workers, created,
          cfg, mutex, thr, ncalls, log, fatal, reports, errorCall, main,
          running, dhcp, dhcpLog>>

(***************************************************************************)
(* Bounds of the model.                                                    *)
(***************************************************************************)
\* events and channel closures the environment may produce unasked
MaxExtra == 1
\* longest candidate list returned by propose-ip
MaxIPs == 2
\* executions of DeployService.Configure
MaxConfigures == 2
\* pool calls made by the goroutines
MaxCalls == 3
\* fatal errors reported by workers
MaxReports == 2
\* executions of DHCPService.configure
MaxDHCPConfigures == 3

(***************************************************************************)
(* Program constants.                                                      *)
(***************************************************************************)
NodeStatusNew == 0
NodeStatusReady == 4
NodeStatusDeployed == 6
NodeStatusDeploying == 9
NodeStatusAllocated == 10
NodeStatusFailedDeployment == 11

ErrInvalidNodeStatus == "ErrInvalidNodeStatus"
ErrIPAllocationConflict == "ErrIPAllocationConflict"
ErrInsufficientUserPermissions == "ErrInsufficientUserPermissions"
ErrInvalidStorageConfig == "ErrInvalidStorageConfig"
ErrSignalClosed == "ErrSignalClosed"
\* an error returned by a remote operation (activity) or by the CheckIP child
ActivityError == "ActivityError"

Roots == {"deploy", "allocate-ip", "deploy-ephemeral-os", "deploy-installed-os"}

\* machine identifiers; every execution of the model is for machine "m1"
Machines == {"m1", "m2"}
SystemID == "m1"

\* values the environment can answer with
PowerTypes == {"manual", "ipmi"}
PowerStates == {"on", "off"}
Statuses == {NodeStatusReady, NodeStatusAllocated, NodeStatusDeploying}
Addrs == {"A", "B"}
\* kernels set-deploy-params resolves, and the kernel names and power states
\* an execution of deploy-ephemeral-os or deploy-installed-os on its own can
\* be handed
ResolvedKernels == {"ga-22.04"}
HWEKernels == ResolvedKernels \cup {"ubuntu/focal"}
AnyPowerStates == PowerStates \cup {"unknown"}
AssetNames == {"ubuntu/focal", "ga-22.04", "other"}
\* the nil entry of a []*netip.Addr
Absent == "nil"

(***************************************************************************)
(* Records of the program.                                                 *)
(***************************************************************************)
DeployInputs ==
    [SystemID : {SystemID}, InstallKVM : BOOLEAN, RegisterVMHost : BOOLEAN,
     EphemeralDeploy : BOOLEAN]

ZeroDeployInput ==
    [SystemID |-> "", InstallKVM |-> FALSE, RegisterVMHost |-> FALSE,
     EphemeralDeploy |-> FALSE]

GetPowerParamsResults == [PowerType : PowerTypes]

ZeroPowerParams == [PowerType |-> ""]

SetDeployParamsResults ==
    [Osystem : {"ubuntu"}, DistroSeries : {"focal"},
     HWEKernel : ResolvedKernels, PowerState : PowerStates,
     Status : Statuses, EphemeralDeploy : {input.EphemeralDeploy}]
    \cup
    \* answers whose ephemeral_deploy differs from the request's flag
    [Osystem : {"ubuntu"}, DistroSeries : {"focal"},
     HWEKernel : ResolvedKernels, PowerState : {"on"},
     Status : {NodeStatusReady}, EphemeralDeploy : {~input.EphemeralDeploy}]

ZeroDeployParams ==
    [Osystem |-> "", DistroSeries |-> "", HWEKernel |-> "", PowerState |-> "",
     Status |-> NodeStatusNew, EphemeralDeploy |-> FALSE]

ZeroChildInput ==
    [SystemID |-> "", PowerParams |-> ZeroPowerParams,
     DeployParams |-> ZeroDeployParams]

ZeroProposeIPResult == [SystemID |-> "", IPs |-> <<>>, MACs |-> <<>>]

ZeroClaimIPsInput == [SystemID |-> "", IPs |-> <<>>, MACs |-> <<>>]

ZeroBootAssets == [arr |-> <<>>, len |-> 0]

\* no signal received yet by the sub-flow: the payloads of the leases and of
\* the boot-asset signals, and the kinds of all signals in order of receipt
NothingConsumed == [leases |-> <<>>, assets |-> <<>>, order |-> <<>>]

NoError == [kind |-> "nil", systemID |-> ""]

Running == [kind |-> "running", systemID |-> ""]

\* a remote operation (or the CheckIP child workflow) as issued, with the
\* outcome it returned: "pending", "ok" or "err"
\* the timeout, in seconds, of the activity options an operation is issued
\* with: tworkflow.WithActivityOptions(ctx, tworkflow.ActivityOptions{
\* StartToCloseTimeout: 10 * time.Second}) for four of them; the others are
\* executed with the context of the workflow, which sets none (0)
ActivityTimeout(op) ==
    IF op \in {"get-power-params", "get-user-info", "check-disk-status",
               "set-deploy-params"}
    THEN 10
    ELSE 0

Call(op, sid, result) ==
    [op |-> op, SystemID |-> sid, Status |-> NodeStatusNew, Netboot |-> TRUE,
     Timeout |-> ActivityTimeout(op), result |-> result]

Outcome(ok) == IF ok THEN "ok" ELSE "err"

PowerOps == {"power-on", "power-cycle"}

CallOps == {calls[i].op : i \in 1..Len(calls)}

(***************************************************************************)
(* Signal channels.                                                        *)
(***************************************************************************)
Kinds == {"leases", "boot-assets", "curtin-download", "curtin-finished",
          "cloud-init-download", "cloud-init-finished"}

\* fmt.Sprintf("<kind>:%s", systemID)
ChannelName(kind, sid) == <<kind, sid>>

Channels == {ChannelName(k, m) : k \in Kinds, m \in Machines}

\* payloads: the IsBootInterface flag of a LeaseSignal, the BootAsset name
\* of a BootAssetSignal, and "sig" for the signals without a payload
Payloads(kind) ==
    IF kind = "leases" THEN BOOLEAN
    ELSE IF kind = "boot-assets" THEN AssetNames
    ELSE {"sig"}


(***************************************************************************)
(* The worker pool and the executions of Configure.                        *)
(***************************************************************************)
deployServiceWorkerPoolGroup == "deploy-service"

\* fmt.Sprintf("agent:deploy@vlan-%d", vlan)
taskQueue(vlan) == <<"agent:deploy@vlan-", vlan>>

\* segment lists get-rack-controller-vlans can answer with
VLANLists == {<<>>, <<10>>, <<30>>, <<10, 20>>, <<10, 10>>}

Execs == 1..MaxConfigures

\* workers: make(map[string][]worker.Worker)
NoWorkers == [g \in {} |-> <<>>]

\* an execution of Configure that has not started
IdleConfigure == [pc |-> "idle", vlans |-> <<>>, i |-> 0, err |-> "nil"]

\* goroutines that call the pool, the groups and the task queues they name
Threads == {1, 2}
Groups == {deployServiceWorkerPoolGroup, "other-service"}
TaskQueues == {"queue"}

\* a goroutine that is in no pool call
IdleThread ==
    [pc |-> "idle", op |-> "", group |-> "", taskQueue |-> "", w |-> 0,
     ids |-> <<>>, err |-> "nil", before |-> NoWorkers,
     createdBefore |-> <<>>]

\* the zero value of a channel field
NilChannel == "nil"

\* no configure-dhcp-service execution has begun (NewDHCPService leaves
\* running at its zero value)
IdleDHCP == [pc |-> "idle", Enabled |-> FALSE, failed |-> "none", err |-> "nil"]

\* pool.main as NewWorkerPool constructs it: not started
ConstructedMain == [state |-> "constructed", stops |-> 0]

(***************************************************************************)
(* Initial states: one execution of one registered workflow.               *)
(***************************************************************************)
ChildInputs ==
    [SystemID : {SystemID}, PowerParams : GetPowerParamsResults,
     DeployParams : [Osystem : {"ubuntu"}, DistroSeries : {"focal"},
                     HWEKernel : HWEKernels, PowerState : AnyPowerStates,
                     Status : Statuses, EphemeralDeploy : {FALSE}]]

Init ==
    /\ root \in Roots
    /\ input \in (IF root = "deploy" THEN DeployInputs ELSE {ZeroDeployInput})
    /\ childInput \in
         (IF root = "deploy" THEN {ZeroChildInput}
          ELSE IF root = "allocate-ip"
               THEN {[ZeroChildInput EXCEPT !.SystemID = SystemID]}
               ELSE ChildInputs)
    /\ pc = (IF root = "deploy" THEN "deploy_start"
             ELSE IF root = "allocate-ip" THEN "alloc_propose"
             ELSE IF root = "deploy-ephemeral-os" THEN "eph_power"
             ELSE "inst_power")
    /\ powerParamsFuture = "none"
    /\ userInfoFuture = "none"
    /\ powerParams = ZeroPowerParams
    /\ userInfo = [IsSuperuser |-> FALSE]
    /\ diskStatus = [Diskless |-> FALSE]
    /\ deployParams = ZeroDeployParams
    /\ proposedIPs = ZeroProposeIPResult
    /\ checkIPResult = {}
    /\ claimIPs = ZeroClaimIPsInput
    /\ leaseSig = [set |-> FALSE, IsBootInterface |-> FALSE]
    /\ bootAssets = ZeroBootAssets
    /\ consumed = NothingConsumed
    /\ mailbox = [ch \in Channels |-> <<>>]
    /\ closed = {}
    /\ owed = {}
    /\ extra = 0
    /\ calls = <<>>
    /\ completed = <<>>
    /\ err = Running
    /\ workers = NoWorkers
    /\ created = <<>>
    /\ cfg = [e \in Execs |-> IdleConfigure]
    /\ mutex = 0
    /\ thr = [t \in Threads |-> IdleThread]
    /\ ncalls = 0
    /\ log = <<>>
    /\ fatal = NilChannel
    /\ reports = <<>>
    /\ errorCall = [pc |-> "idle", result |-> "nil"]
    /\ main = ConstructedMain
    /\ running = FALSE
    /\ dhcp = IdleDHCP
    /\ dhcpLog = <<>>

poolVars == <<workers, created, cfg>>
callVars == <<mutex, thr, ncalls, log>>
fatalVars == <<fatal, reports, errorCall, main>>
\* what no step of a workflow execution changes
dhcpVars == <<running, dhcp, dhcpLog>>
fixedVars == <<root, input, poolVars, callVars, fatalVars, dhcpVars>>
futureVars == <<powerParamsFuture, userInfoFuture>>
deployLocals == <<powerParams, userInfo, diskStatus, deployParams>>
allocLocals == <<proposedIPs, checkIPResult, claimIPs>>
bootLocals == <<leaseSig, bootAssets, consumed>>
envVars == <<mailbox, closed, owed, extra>>

\* return e from the root workflow (a child's error is returned unchanged
\* by each caller up to the root)
Fail(kind) ==
    /\ pc' = "done"
    /\ err' = [kind |-> kind, systemID |-> ""]

\* fmt.Errorf("failed deployment for %s: %w", systemID, err)
failDeployment(sid, kind) == [kind |-> kind, systemID |-> sid]

(***************************************************************************)
(* Deploy, precheck: get-power-params and get-user-info in parallel.       *)
(***************************************************************************)
DeployStart ==
    /\ pc = "deploy_start"
    /\ calls' = calls \o <<Call("get-power-params", input.SystemID, "pending"),
                           Call("get-user-info", "", "pending")>>
    /\ powerParamsFuture' = "pending"
    /\ userInfoFuture' = "pending"
    /\ pc' = "deploy_get_power_params"
    /\ UNCHANGED <<fixedVars, deployLocals, childInput, allocLocals,
                   bootLocals, envVars, completed, err>>

\* the get-power-params activity completes
CompleteGetPowerParams ==
    /\ powerParamsFuture = "pending"
    /\ \E ok \in BOOLEAN :
         /\ powerParamsFuture' = Outcome(ok)
         /\ calls' = [calls EXCEPT ![1].result = Outcome(ok)]
    /\ UNCHANGED <<fixedVars, pc, userInfoFuture, deployLocals, childInput,
                   allocLocals, bootLocals, envVars, completed, err>>

\* the get-user-info activity completes
CompleteGetUserInfo ==
    /\ userInfoFuture = "pending"
    /\ \E ok \in BOOLEAN :
         /\ userInfoFuture' = Outcome(ok)
         /\ calls' = [calls EXCEPT ![2].result = Outcome(ok)]
    /\ UNCHANGED <<fixedVars, pc, powerParamsFuture, deployLocals, childInput,
                   allocLocals, bootLocals, envVars, completed, err>>

\* DeployGetPowerParams going on to the next step when the activity failed
DeployGetPowerParams_IgnoreError ==
    /\ pc = "deploy_get_power_params"
    /\ powerParamsFuture \in {"ok", "err"}
    /\ \E res \in GetPowerParamsResults : powerParams' = res
    /\ pc' = "deploy_get_user_info"
    /\ UNCHANGED <<fixedVars, futureVars, userInfo, diskStatus, deployParams,
                   childInput, allocLocals, bootLocals, envVars, calls,
                   completed, err>>

\* err := powerParamsFuture.Get(getPowerParamsCtx, &powerParams)
DeployGetPowerParams ==
    /\ pc = "deploy_get_power_params"
    /\ powerParamsFuture \in {"ok", "err"}
    /\ IF powerParamsFuture = "err"
       THEN /\ Fail(ActivityError)
            /\ UNCHANGED powerParams
       ELSE /\ \E res \in GetPowerParamsResults : powerParams' = res
            /\ pc' = "deploy_get_user_info"
            /\ UNCHANGED err
    /\ UNCHANGED <<fixedVars, futureVars, userInfo, diskStatus, deployParams,
                   childInput, allocLocals, bootLocals, envVars, calls,
                   completed>>

\* DeployGetUserInfo with the permission check testing InstallKVM only
DeployGetUserInfo_KVMOnly ==
    /\ pc = "deploy_get_user_info"
    /\ userInfoFuture \in {"ok", "err"}
    /\ IF userInfoFuture = "err"
       THEN /\ Fail(ActivityError)
            /\ UNCHANGED userInfo
       ELSE \E super \in BOOLEAN :
            /\ userInfo' = [IsSuperuser |-> super]
            /\ IF input.InstallKVM /\ ~super
               THEN /\ pc' = "done"
                    /\ err' = failDeployment(input.SystemID,
                                             ErrInsufficientUserPermissions)
               ELSE /\ pc' = (IF ~input.EphemeralDeploy
                              THEN "deploy_check_disk"
                              ELSE "deploy_set_params")
                    /\ UNCHANGED err
    /\ UNCHANGED <<fixedVars, futureVars, powerParams, diskStatus,
                   deployParams, childInput, allocLocals, bootLocals, envVars,
                   calls, completed>>

\* err = userInfoFuture.Get(getUserInfoCtx, &userInfo), then the permission
\* check and the branch on input.EphemeralDeploy
DeployGetUserInfo ==
    /\ pc = "deploy_get_user_info"
    /\ userInfoFuture \in {"ok", "err"}
    /\ IF userInfoFuture = "err"
       THEN /\ Fail(ActivityError)
            /\ UNCHANGED userInfo
       ELSE \E super \in BOOLEAN :
            /\ userInfo' = [IsSuperuser |-> super]
            /\ IF (input.InstallKVM \/ input.RegisterVMHost) /\ ~super
               THEN /\ pc' = "done"
                    /\ err' = failDeployment(input.SystemID,
                                             ErrInsufficientUserPermissions)
               ELSE /\ pc' = (IF ~input.EphemeralDeploy
                              THEN "deploy_check_disk"
                              ELSE "deploy_set_params")
                    /\ UNCHANGED err
    /\ UNCHANGED <<fixedVars, futureVars, powerParams, diskStatus,
                   deployParams, childInput, allocLocals, bootLocals, envVars,
                   calls, completed>>

(***************************************************************************)
(* Deploy, disk validation (non-ephemeral requests only).                  *)
(***************************************************************************)
\* DeployCheckDiskStatus without the test of diskStatus.Diskless
DeployCheckDiskStatus_NoDisklessTest ==
    /\ pc = "deploy_check_disk"
    /\ \E ok \in BOOLEAN :
         /\ calls' = Append(calls, Call("check-disk-status", input.SystemID,
                                        Outcome(ok)))
         /\ IF ~ok
            THEN /\ Fail(ActivityError)
                 /\ UNCHANGED diskStatus
            ELSE \E diskless \in BOOLEAN :
                 /\ diskStatus' = [Diskless |-> diskless]
                 /\ pc' = "deploy_set_params"
                 /\ UNCHANGED err
    /\ UNCHANGED <<fixedVars, futureVars, powerParams, userInfo, deployParams,
                   childInput, allocLocals, bootLocals, envVars, completed>>

DeployCheckDiskStatus ==
    /\ pc = "deploy_check_disk"
    /\ \E ok \in BOOLEAN :
         /\ calls' = Append(calls, Call("check-disk-status", input.SystemID,
                                        Outcome(ok)))
         /\ IF ~ok
            THEN /\ Fail(ActivityError)
                 /\ UNCHANGED diskStatus
            ELSE \E diskless \in BOOLEAN :
                 /\ diskStatus' = [Diskless |-> diskless]
                 /\ IF diskless
                    THEN /\ pc' = "done"
                         /\ err' = failDeployment(input.SystemID,
                                                  ErrInvalidStorageConfig)
                    ELSE /\ pc' = "deploy_set_params"
                         /\ UNCHANGED err
    /\ UNCHANGED <<fixedVars, futureVars, powerParams, userInfo, deployParams,
                   childInput, allocLocals, bootLocals, envVars, completed>>

(***************************************************************************)
(* Deploy, parameter resolution, then the AllocateIPs child is started.    *)
(***************************************************************************)
\* DeploySetDeployParams without the test of deployParams.Status
DeploySetDeployParams_NoStatusTest ==
    /\ pc = "deploy_set_params"
    /\ \E ok \in BOOLEAN :
         /\ calls' = Append(calls, Call("set-deploy-params", input.SystemID,
                                        Outcome(ok)))
         /\ IF ~ok
            THEN /\ Fail(ActivityError)
                 /\ UNCHANGED <<deployParams, childInput>>
            ELSE \E res \in SetDeployParamsResults :
                 /\ deployParams' = res
                 /\ pc' = "alloc_propose"
                 /\ childInput' = [ZeroChildInput EXCEPT
                                     !.SystemID = input.SystemID]
                 /\ UNCHANGED err
    /\ UNCHANGED <<fixedVars, futureVars, powerParams, userInfo, diskStatus,
                   allocLocals, bootLocals, envVars, completed>>

DeploySetDeployParams ==
    /\ pc = "deploy_set_params"
    /\ \E ok \in BOOLEAN :
         /\ calls' = Append(calls, Call("set-deploy-params", input.SystemID,
                                        Outcome(ok)))
         /\ IF ~ok
            THEN /\ Fail(ActivityError)
                 /\ UNCHANGED <<deployParams, childInput>>
            ELSE \E res \in SetDeployParamsResults :
                 /\ deployParams' = res
                 /\ IF res.Status # NodeStatusReady
                       /\ res.Status # NodeStatusAllocated
                    THEN /\ pc' = "done"
                         /\ err' = failDeployment(input.SystemID,
                                                  ErrInvalidNodeStatus)
                         /\ UNCHANGED childInput
                    ELSE /\ pc' = "alloc_propose"
                         /\ childInput' = [ZeroChildInput EXCEPT
                                             !.SystemID = input.SystemID]
                         /\ UNCHANGED err
    /\ UNCHANGED <<fixedVars, futureVars, powerParams, userInfo, diskStatus,
                   allocLocals, bootLocals, envVars, completed>>


(***************************************************************************)
(* AllocateIPs: propose, verify (CheckIP child), claim.                    *)
(***************************************************************************)
RECURSIVE SeqsUpTo(_, _)
\* the sequences over S of length at most n
SeqsUpTo(S, n) ==
    IF n = 0 THEN {<<>>}
    ELSE LET shorter == SeqsUpTo(S, n - 1)
         IN  shorter \cup {Append(q, x) : q \in shorter, x \in S}

Range(q) == {q[i] : i \in 1..Len(q)}

\* candidate lists propose-ip can answer with, and their hardware addresses
ProposeIPLists == SeqsUpTo(Addrs, MaxIPs)

MACsFor(ips) == [i \in 1..Len(ips) |-> i]

\* the in-use subsets the CheckIP child workflow can report for a list
CheckIPResults(ips) == SUBSET Range(ips)

RECURSIVE BuildClaimIPs_SkipInUse(_, _)
\* BuildClaimIPs leaving the in-use candidates out instead of appending nil
BuildClaimIPs_SkipInUse(ips, inUse) ==
    IF ips = <<>> THEN <<>>
    ELSE (IF Head(ips) \notin inUse THEN <<Head(ips)>> ELSE <<>>)
         \o BuildClaimIPs_SkipInUse(Tail(ips), inUse)

RECURSIVE BuildClaimIPs(_, _)
\* for _, ip := range checkIPInput.IPs { append ip, or nil when in use }
BuildClaimIPs(ips, inUse) ==
    IF ips = <<>> THEN <<>>
    ELSE <<IF Head(ips) \notin inUse THEN Head(ips) ELSE Absent>>
         \o BuildClaimIPs(Tail(ips), inUse)

AllocProposeIP ==
    /\ pc = "alloc_propose"
    /\ \E ok \in BOOLEAN :
         /\ calls' = Append(calls, Call("propose-ip", childInput.SystemID,
                                        Outcome(ok)))
         /\ IF ~ok
            THEN /\ Fail(ActivityError)
                 /\ UNCHANGED proposedIPs
            ELSE \E ips \in ProposeIPLists :
                 /\ proposedIPs' = [SystemID |-> childInput.SystemID,
                                    IPs |-> ips, MACs |-> MACsFor(ips)]
                 /\ pc' = "alloc_check"
                 /\ UNCHANGED err
    /\ UNCHANGED <<fixedVars, futureVars, deployLocals, childInput,
                   checkIPResult, claimIPs, bootLocals, envVars, completed>>

AllocCheckIP ==
    /\ pc = "alloc_check"
    /\ \E ok \in BOOLEAN :
         /\ calls' = Append(calls, Call("check-ip", "", Outcome(ok)))
         /\ IF ~ok
            THEN /\ Fail(ActivityError)
                 /\ UNCHANGED checkIPResult
            ELSE \E inUse \in CheckIPResults(proposedIPs.IPs) :
                 /\ checkIPResult' = inUse
                 /\ pc' = "alloc_claim"
                 /\ UNCHANGED err
    /\ UNCHANGED <<fixedVars, futureVars, deployLocals, childInput,
                   proposedIPs, claimIPs, bootLocals, envVars, completed>>

\* AllocClaimIPs going on when claim-ips returned an error
AllocClaimIPs_IgnoreError ==
    /\ pc = "alloc_claim"
    /\ LET checkIPInputIPs == proposedIPs.IPs
           claim == [SystemID |-> ZeroClaimIPsInput.SystemID,
                     IPs |-> BuildClaimIPs(checkIPInputIPs, checkIPResult),
                     MACs |-> proposedIPs.MACs]
       IN  /\ claimIPs' = claim
           /\ \E ok \in BOOLEAN :
                calls' = Append(calls, Call("claim-ips", claim.SystemID,
                                            Outcome(ok)))
    /\ pc' = "alloc_return"
    /\ UNCHANGED <<fixedVars, futureVars, deployLocals, childInput,
                   proposedIPs, checkIPResult, bootLocals, envVars,
                   completed, err>>

\* AllocClaimIPs submitting the claim a second time when the first failed
AllocClaimIPs_RetryOnce ==
    /\ pc = "alloc_claim"
    /\ LET checkIPInputIPs == proposedIPs.IPs
           claim == [SystemID |-> ZeroClaimIPsInput.SystemID,
                     IPs |-> BuildClaimIPs(checkIPInputIPs, checkIPResult),
                     MACs |-> proposedIPs.MACs]
       IN  /\ claimIPs' = claim
           /\ \E ok \in BOOLEAN :
                /\ calls' = Append(calls, Call("claim-ips", claim.SystemID,
                                               Outcome(ok)))
                /\ IF ok
                   THEN /\ pc' = "alloc_return"
                        /\ UNCHANGED err
                   ELSE IF "claim-ips" \in CallOps
                        THEN Fail(ActivityError)
                        ELSE UNCHANGED <<pc, err>>
    /\ UNCHANGED <<fixedVars, futureVars, deployLocals, childInput,
                   proposedIPs, checkIPResult, bootLocals, envVars,
                   completed>>

AllocClaimIPs ==
    /\ pc = "alloc_claim"
    /\ LET checkIPInputIPs == proposedIPs.IPs
           claim == [SystemID |-> ZeroClaimIPsInput.SystemID,
                     IPs |-> BuildClaimIPs(checkIPInputIPs, checkIPResult),
                     MACs |-> proposedIPs.MACs]
       IN  /\ claimIPs' = claim
           /\ \E ok \in BOOLEAN :
                /\ calls' = Append(calls, Call("claim-ips", claim.SystemID,
                                               Outcome(ok)))
                /\ IF ~ok
                   THEN Fail(ActivityError)
                   ELSE /\ pc' = "alloc_return"
                        /\ UNCHANGED err
    /\ UNCHANGED <<fixedVars, futureVars, deployLocals, childInput,
                   proposedIPs, checkIPResult, bootLocals, envVars,
                   completed>>

\* AllocateIPs returns nil; Deploy starts the DeployEphemeralOS child
AllocReturn ==
    /\ pc = "alloc_return"
    /\ completed' = Append(completed, "allocate-ip")
    /\ proposedIPs' = ZeroProposeIPResult
    /\ checkIPResult' = {}
    /\ claimIPs' = ZeroClaimIPsInput
    /\ IF root = "deploy"
       THEN /\ pc' = "eph_power"
            /\ childInput' = [SystemID |-> input.SystemID,
                              PowerParams |-> powerParams,
                              DeployParams |-> deployParams]
            /\ UNCHANGED err
       ELSE /\ pc' = "done"
            /\ err' = NoError
            /\ childInput' = ZeroChildInput
    /\ UNCHANGED <<fixedVars, futureVars, deployLocals, bootLocals, envVars,
                   calls>>


(***************************************************************************)
(* HandleSignal and the waits built on it.                                 *)
(***************************************************************************)
\* sigChan.Receive delivers the oldest buffered signal of the channel
HasSignal(channel) == mailbox[channel] # <<>>

\* sigChan.Receive reports false: the channel is closed and drained
SignalClosed(channel) == mailbox[channel] = <<>> /\ channel \in closed

\* fmt.Sprintf("%s/%s", input.DeployParams.Osystem, input.DeployParams.DistroSeries)
AssetName(osystem, series) == osystem \o "/" \o series

\* the []string literal handed to checkAllBootAssets by DeployEphemeralOS
EphemeralBootAssets(dp) ==
    <<AssetName(dp.Osystem, dp.DistroSeries), dp.HWEKernel>>

\* the []string{} handed to checkAllBootAssets by DeployInstalledOS
InstalledBootAssets == <<>>

RECURSIVE RemoveLoop_Truncate(_, _, _, _)
\* RemoveLoop cutting the slice at every match (bootAssets = bootAssets[:i])
RemoveLoop_Truncate(b, sig, i, n) ==
    IF i > n THEN b
    ELSE IF b.arr[i] # sig THEN RemoveLoop_Truncate(b, sig, i + 1, n)
    ELSE RemoveLoop_Truncate([arr |-> b.arr, len |-> i - 1], sig, i + 1, n)

RECURSIVE RemoveLoop(_, _, _, _)
\* iterations i..n of "for i, bootasset := range bootAssets" for one signal:
\* the range covers the n elements the slice had when the loop started and
\* reads them from the backing array, which the body rewrites in place
RemoveLoop(b, sig, i, n) ==
    IF i > n THEN b
    ELSE IF b.arr[i] # sig THEN RemoveLoop(b, sig, i + 1, n)
    ELSE IF i < b.len
         \* bootAssets = append(bootAssets[:i], bootAssets[i+1:]...)
         THEN RemoveLoop(
                [arr |-> [k \in 1..Len(b.arr) |->
                            IF k >= i /\ k < b.len THEN b.arr[k + 1]
                            ELSE b.arr[k]],
                 len |-> b.len - 1], sig, i + 1, n)
         \* bootAssets = bootAssets[:i]
         ELSE RemoveLoop([arr |-> b.arr, len |-> i - 1], sig, i + 1, n)

\* the body of checkLoop for one received BootAssetSignal
RemoveAsset(b, sig) == RemoveLoop(b, sig, 1, b.len)

\* checkForBootInterfaceLease leaving its loop on any lease
\* (for leaseSig == nil)
checkForBootInterfaceLease_AnyLease(at, next, assets) ==
    LET channel == ChannelName("leases", childInput.SystemID) IN
    /\ pc = at
    /\ \/ /\ HasSignal(channel)
          /\ LET sig == Head(mailbox[channel]) IN
             /\ mailbox' = [mailbox EXCEPT ![channel] = Tail(@)]
             /\ leaseSig' = [set |-> TRUE, IsBootInterface |-> sig]
             /\ consumed' = [consumed EXCEPT !.leases = Append(@, sig),
                                              !.order = Append(@, "leases")]
             /\ pc' = next
             /\ bootAssets' = [arr |-> assets, len |-> Len(assets)]
          /\ UNCHANGED err
       \/ /\ SignalClosed(channel)
          /\ Fail(ErrSignalClosed)
          /\ UNCHANGED <<mailbox, leaseSig, bootAssets, consumed>>
    /\ UNCHANGED <<fixedVars, futureVars, deployLocals, childInput,
                   allocLocals, closed, owed, extra, calls, completed>>

\* one iteration of the loop of checkForBootInterfaceLease
checkForBootInterfaceLease(at, next, assets) ==
    LET channel == ChannelName("leases", childInput.SystemID) IN
    /\ pc = at
    /\ \/ /\ HasSignal(channel)
          /\ LET sig == Head(mailbox[channel]) IN
             /\ mailbox' = [mailbox EXCEPT ![channel] = Tail(@)]
             /\ leaseSig' = [set |-> TRUE, IsBootInterface |-> sig]
             /\ consumed' = [consumed EXCEPT !.leases = Append(@, sig),
                                              !.order = Append(@, "leases")]
             /\ IF sig
                THEN /\ pc' = next
                     /\ bootAssets' = [arr |-> assets, len |-> Len(assets)]
                ELSE UNCHANGED <<pc, bootAssets>>
          /\ UNCHANGED err
       \/ /\ SignalClosed(channel)
          /\ Fail(ErrSignalClosed)
          /\ UNCHANGED <<mailbox, leaseSig, bootAssets, consumed>>
    /\ UNCHANGED <<fixedVars, futureVars, deployLocals, childInput,
                   allocLocals, closed, owed, extra, calls, completed>>

\* one iteration of checkLoop of checkAllBootAssets
checkAllBootAssets(at, next) ==
    LET channel == ChannelName("boot-assets", childInput.SystemID) IN
    /\ pc = at
    /\ \/ /\ HasSignal(channel)
          /\ LET sig == Head(mailbox[channel])
                 rest == RemoveAsset(bootAssets, sig)
             IN  /\ mailbox' = [mailbox EXCEPT ![channel] = Tail(@)]
                 /\ bootAssets' = rest
                 /\ consumed' = [consumed EXCEPT
                                    !.assets = Append(@, sig),
                                    !.order = Append(@, "boot-assets")]
                 /\ pc' = (IF rest.len = 0 THEN next ELSE at)
          /\ UNCHANGED err
       \/ /\ SignalClosed(channel)
          /\ Fail(ErrSignalClosed)
          /\ UNCHANGED <<mailbox, bootAssets, consumed>>
    /\ UNCHANGED <<fixedVars, futureVars, deployLocals, childInput,
                   allocLocals, leaseSig, closed, owed, extra, calls,
                   completed>>

\* HandleSignal returning a zero signal and no error from a closed channel
HandleSignal_ClosedIsSignal(at, kind, next) ==
    LET channel == ChannelName(kind, childInput.SystemID) IN
    /\ pc = at
    /\ \/ /\ HasSignal(channel)
          /\ mailbox' = [mailbox EXCEPT ![channel] = Tail(@)]
       \/ /\ SignalClosed(channel)
          /\ UNCHANGED mailbox
    /\ consumed' = [consumed EXCEPT !.order = Append(@, kind)]
    /\ pc' = next
    /\ UNCHANGED <<fixedVars, futureVars, deployLocals, childInput,
                   allocLocals, leaseSig, bootAssets, closed, owed, extra,
                   calls, completed, err>>

\* HandleSignal receiving from the channel of the kind of any machine
HandleSignal_AnyMachine(at, kind, next) ==
    /\ pc = at
    /\ \/ \E m \in Machines :
            /\ HasSignal(ChannelName(kind, m))
            /\ mailbox' = [mailbox EXCEPT ![ChannelName(kind, m)] = Tail(@)]
            /\ consumed' = [consumed EXCEPT !.order = Append(@, kind)]
            /\ pc' = next
            /\ UNCHANGED err
       \/ /\ SignalClosed(ChannelName(kind, childInput.SystemID))
          /\ Fail(ErrSignalClosed)
          /\ UNCHANGED <<mailbox, consumed>>
    /\ UNCHANGED <<fixedVars, futureVars, deployLocals, childInput,
                   allocLocals, leaseSig, bootAssets, closed, owed, extra,
                   calls, completed>>

\* _, err = workflow.HandleSignal[T](ctx, fmt.Sprintf("<kind>:%s", input.SystemID))
HandleSignal(at, kind, next) ==
    LET channel == ChannelName(kind, childInput.SystemID) IN
    /\ pc = at
    /\ \/ /\ HasSignal(channel)
          /\ mailbox' = [mailbox EXCEPT ![channel] = Tail(@)]
          /\ consumed' = [consumed EXCEPT !.order = Append(@, kind)]
          /\ pc' = next
          /\ UNCHANGED err
       \/ /\ SignalClosed(channel)
          /\ Fail(ErrSignalClosed)
          /\ UNCHANGED <<mailbox, consumed>>
    /\ UNCHANGED <<fixedVars, futureVars, deployLocals, childInput,
                   allocLocals, leaseSig, bootAssets, closed, owed, extra,
                   calls, completed>>

(***************************************************************************)
(* The events a machine sends while it boots a stage.                      *)
(***************************************************************************)
EphemeralEvents(dp) ==
    {<<"leases", TRUE>>, <<"curtin-download", "sig">>,
     <<"curtin-finished", "sig">>}
    \cup {<<"boot-assets", a>> : a \in Range(EphemeralBootAssets(dp))}

InstalledEvents ==
    {<<"leases", TRUE>>, <<"cloud-init-download", "sig">>,
     <<"cloud-init-finished", "sig">>}
    \cup {<<"boot-assets", a>> : a \in Range(InstalledBootAssets)}

(***************************************************************************)
(* DeployEphemeralOS.                                                      *)
(***************************************************************************)
\* EphemeralPowerActivity choosing power-on for the power state "off" only
EphemeralPowerActivity_OnlyWhenOff(dp) ==
    IF dp.PowerState = "off" THEN "power-on" ELSE "power-cycle"

\* the power activity DeployEphemeralOS chooses
EphemeralPowerActivity(dp) ==
    IF dp.PowerState = "on" THEN "power-cycle" ELSE "power-on"

EphPower ==
    /\ pc = "eph_power"
    /\ IF childInput.PowerParams.PowerType # "manual"
       THEN \E ok \in BOOLEAN :
            /\ calls' = Append(calls,
                  Call(EphemeralPowerActivity(childInput.DeployParams), "",
                       Outcome(ok)))
            /\ IF ~ok
               THEN /\ Fail(ActivityError)
                    /\ UNCHANGED owed
               ELSE /\ pc' = "eph_lease"
                    /\ owed' = owed \cup
                               EphemeralEvents(childInput.DeployParams)
                    /\ UNCHANGED err
       ELSE /\ pc' = "eph_lease"
            /\ owed' = owed \cup EphemeralEvents(childInput.DeployParams)
            /\ UNCHANGED <<calls, err>>
    /\ UNCHANGED <<fixedVars, futureVars, deployLocals, childInput,
                   allocLocals, bootLocals, mailbox, closed, extra,
                   completed>>

EphLease ==
    checkForBootInterfaceLease("eph_lease", "eph_assets",
                               EphemeralBootAssets(childInput.DeployParams))

EphAssets == checkAllBootAssets("eph_assets", "eph_download")

\* EphDownload receiving from the channel of the stage-finished event
EphDownload_WaitsForFinished ==
    HandleSignal("eph_download", "curtin-finished", "eph_finished")

EphDownload == HandleSignal("eph_download", "curtin-download", "eph_finished")

EphFinished == HandleSignal("eph_finished", "curtin-finished", "eph_return")

\* EphReturn going on with the boot-order flip for every request
EphReturn_AlwaysFlip ==
    /\ pc = "eph_return"
    /\ completed' = Append(completed, "deploy-ephemeral-os")
    /\ leaseSig' = [set |-> FALSE, IsBootInterface |-> FALSE]
    /\ bootAssets' = ZeroBootAssets
    /\ consumed' = NothingConsumed
    /\ childInput' = ZeroChildInput
    /\ IF root = "deploy"
       THEN /\ pc' = "deploy_set_boot_order"
            /\ UNCHANGED err
       ELSE /\ pc' = "done"
            /\ err' = NoError
    /\ UNCHANGED <<fixedVars, futureVars, deployLocals, allocLocals, envVars,
                   calls>>

\* EphReturn choosing the next phase by the ephemeral flag of the resolved
\* deployment parameters
EphReturn_ResolvedFlag ==
    /\ pc = "eph_return"
    /\ completed' = Append(completed, "deploy-ephemeral-os")
    /\ leaseSig' = [set |-> FALSE, IsBootInterface |-> FALSE]
    /\ bootAssets' = ZeroBootAssets
    /\ consumed' = NothingConsumed
    /\ childInput' = ZeroChildInput
    /\ IF root = "deploy"
       THEN /\ pc' = (IF ~deployParams.EphemeralDeploy
                      THEN "deploy_set_boot_order"
                      ELSE "deploy_update_status")
            /\ UNCHANGED err
       ELSE /\ pc' = "done"
            /\ err' = NoError
    /\ UNCHANGED <<fixedVars, futureVars, deployLocals, allocLocals, envVars,
                   calls>>

\* DeployEphemeralOS returns nil; Deploy goes on with the boot-order flip
\* or, for an ephemeral request, with the status update
EphReturn ==
    /\ pc = "eph_return"
    /\ completed' = Append(completed, "deploy-ephemeral-os")
    /\ leaseSig' = [set |-> FALSE, IsBootInterface |-> FALSE]
    /\ bootAssets' = ZeroBootAssets
    /\ consumed' = NothingConsumed
    /\ childInput' = ZeroChildInput
    /\ IF root = "deploy"
       THEN /\ pc' = (IF ~input.EphemeralDeploy THEN "deploy_set_boot_order"
                      ELSE "deploy_update_status")
            /\ UNCHANGED err
       ELSE /\ pc' = "done"
            /\ err' = NoError
    /\ UNCHANGED <<fixedVars, futureVars, deployLocals, allocLocals, envVars,
                   calls>>


(***************************************************************************)
(* Deploy, boot-order flip, then the DeployInstalledOS child is started.   *)
(***************************************************************************)
\* DeploySetBootOrder fetching the power parameters again for
\* DeployInstalledOS
DeploySetBootOrder_Refetch ==
    /\ pc = "deploy_set_boot_order"
    /\ \E ok \in BOOLEAN :
         IF ~ok
         THEN /\ calls' = Append(calls,
                    [Call("set-boot-order", input.SystemID, "err")
                       EXCEPT !.Netboot = FALSE])
              /\ Fail(ActivityError)
              /\ UNCHANGED <<childInput, powerParams>>
         ELSE \E res \in GetPowerParamsResults :
              /\ calls' = calls \o
                    <<[Call("set-boot-order", input.SystemID, "ok")
                         EXCEPT !.Netboot = FALSE],
                      Call("get-power-params", input.SystemID, "ok")>>
              /\ powerParams' = res
              /\ pc' = "inst_power"
              /\ childInput' = [SystemID |-> input.SystemID,
                                PowerParams |-> res,
                                DeployParams |-> deployParams]
              /\ UNCHANGED err
    /\ UNCHANGED <<fixedVars, futureVars, userInfo, diskStatus, deployParams,
                   allocLocals, bootLocals, envVars, completed>>

\* DeploySetBootOrder starting DeployInstalledOS whatever set-boot-order
\* returned
DeploySetBootOrder_IgnoreError ==
    /\ pc = "deploy_set_boot_order"
    /\ \E ok \in BOOLEAN :
         calls' = Append(calls,
               [Call("set-boot-order", input.SystemID, Outcome(ok))
                  EXCEPT !.Netboot = FALSE])
    /\ pc' = "inst_power"
    /\ childInput' = [SystemID |-> input.SystemID,
                      PowerParams |-> powerParams,
                      DeployParams |-> deployParams]
    /\ UNCHANGED <<fixedVars, futureVars, deployLocals, allocLocals,
                   bootLocals, envVars, completed, err>>

DeploySetBootOrder ==
    /\ pc = "deploy_set_boot_order"
    /\ \E ok \in BOOLEAN :
         /\ calls' = Append(calls,
               [Call("set-boot-order", input.SystemID, Outcome(ok))
                  EXCEPT !.Netboot = FALSE])
         /\ IF ~ok
            THEN /\ Fail(ActivityError)
                 /\ UNCHANGED childInput
            ELSE /\ pc' = "inst_power"
                 /\ childInput' = [SystemID |-> input.SystemID,
                                   PowerParams |-> powerParams,
                                   DeployParams |-> deployParams]
                 /\ UNCHANGED err
    /\ UNCHANGED <<fixedVars, futureVars, deployLocals, allocLocals,
                   bootLocals, envVars, completed>>

(***************************************************************************)
(* DeployInstalledOS.                                                      *)
(***************************************************************************)
\* InstPower going on to the lease wait whatever power-cycle returned
InstPower_IgnoreError ==
    /\ pc = "inst_power"
    /\ IF childInput.PowerParams.PowerType # "manual"
       THEN \E ok \in BOOLEAN :
            calls' = Append(calls, Call("power-cycle", "", Outcome(ok)))
       ELSE UNCHANGED calls
    /\ pc' = "inst_lease"
    /\ owed' = owed \cup InstalledEvents
    /\ UNCHANGED <<fixedVars, futureVars, deployLocals, childInput,
                   allocLocals, bootLocals, mailbox, closed, extra,
                   completed, err>>

InstPower ==
    /\ pc = "inst_power"
    /\ IF childInput.PowerParams.PowerType # "manual"
       THEN \E ok \in BOOLEAN :
            /\ calls' = Append(calls, Call("power-cycle", "", Outcome(ok)))
            /\ IF ~ok
               THEN /\ Fail(ActivityError)
                    /\ UNCHANGED owed
               ELSE /\ pc' = "inst_lease"
                    /\ owed' = owed \cup InstalledEvents
                    /\ UNCHANGED err
       ELSE /\ pc' = "inst_lease"
            /\ owed' = owed \cup InstalledEvents
            /\ UNCHANGED <<calls, err>>
    /\ UNCHANGED <<fixedVars, futureVars, deployLocals, childInput,
                   allocLocals, bootLocals, mailbox, closed, extra,
                   completed>>

InstLease ==
    checkForBootInterfaceLease("inst_lease", "inst_assets",
                               InstalledBootAssets)

InstAssets == checkAllBootAssets("inst_assets", "inst_download")

InstDownload ==
    HandleSignal("inst_download", "cloud-init-download", "inst_finished")

InstFinished ==
    HandleSignal("inst_finished", "cloud-init-finished", "inst_return")

\* DeployInstalledOS returns nil; Deploy goes on with the status update
InstReturn ==
    /\ pc = "inst_return"
    /\ completed' = Append(completed, "deploy-installed-os")
    /\ leaseSig' = [set |-> FALSE, IsBootInterface |-> FALSE]
    /\ bootAssets' = ZeroBootAssets
    /\ consumed' = NothingConsumed
    /\ childInput' = ZeroChildInput
    /\ IF root = "deploy"
       THEN /\ pc' = "deploy_update_status"
            /\ UNCHANGED err
       ELSE /\ pc' = "done"
            /\ err' = NoError
    /\ UNCHANGED <<fixedVars, futureVars, deployLocals, allocLocals, envVars,
                   calls>>

(***************************************************************************)
(* Deploy, completion.                                                     *)
(***************************************************************************)
\* NodeStatusInput{Status: NodeStatusDeployed}: SystemID keeps its zero value
DeployUpdateNodeStatus ==
    /\ pc = "deploy_update_status"
    /\ pc' = "done"
    /\ \E ok \in BOOLEAN :
         /\ calls' = Append(calls,
               [Call("update-node-status", "", Outcome(ok))
                  EXCEPT !.Status = NodeStatusDeployed])
         /\ err' = (IF ok THEN NoError
                    ELSE [kind |-> ActivityError, systemID |-> ""])
    /\ UNCHANGED <<fixedVars, futureVars, deployLocals, childInput,
                   allocLocals, bootLocals, envVars, completed>>

(***************************************************************************)
(* The environment: the booting machine and other signal senders.          *)
(***************************************************************************)
\* Signals are observed only by the waits of a boot stage, so a signal sent
\* or a channel closed before the stage starts is indistinguishable from one
\* sent as the stage starts: the environment acts from that point on.
BootPositions ==
    {"eph_power", "eph_lease", "eph_assets", "eph_download", "eph_finished",
     "inst_power", "inst_lease", "inst_assets", "inst_download",
     "inst_finished"}

\* the order in which a booting machine produces the events of a stage:
\* it obtains its lease, fetches its boot assets (in any order), then
\* reports the start and the end of the installer or of cloud-init
BootStep(kind) ==
    IF kind = "leases" THEN 1
    ELSE IF kind = "boot-assets" THEN 2
    ELSE IF kind \in {"curtin-download", "cloud-init-download"} THEN 3
    ELSE 4

\* the machine of the execution sends the next event of the stage it is
\* booting
DeliverOwed ==
    /\ pc \in BootPositions
    /\ \E e \in owed :
         LET channel == ChannelName(e[1], SystemID) IN
         /\ \A o \in owed : BootStep(o[1]) >= BootStep(e[1])
         /\ channel \notin closed
         /\ mailbox' = [mailbox EXCEPT ![channel] = Append(@, e[2])]
         /\ owed' = owed \ {e}
    /\ UNCHANGED <<fixedVars, pc, futureVars, deployLocals, childInput,
                   allocLocals, bootLocals, closed, extra, calls, completed,
                   err>>

\* any other signal: another interface's lease, an asset nobody waits for,
\* a repeated event, an event of another machine
DeliverExtra ==
    /\ pc \in BootPositions
    /\ extra < MaxExtra
    /\ \E k \in Kinds, m \in Machines :
         /\ ChannelName(k, m) \notin closed
         /\ \E p \in Payloads(k) :
              mailbox' = [mailbox EXCEPT ![ChannelName(k, m)] = Append(@, p)]
    /\ extra' = extra + 1
    /\ UNCHANGED <<fixedVars, pc, futureVars, deployLocals, childInput,
                   allocLocals, bootLocals, closed, owed, calls, completed,
                   err>>

\* a signal channel of the execution is closed
CloseChannel ==
    /\ pc \in BootPositions
    /\ extra < MaxExtra
    /\ \E k \in Kinds :
         /\ ChannelName(k, SystemID) \notin closed
         /\ closed' = closed \cup {ChannelName(k, SystemID)}
    /\ extra' = extra + 1
    /\ UNCHANGED <<fixedVars, pc, futureVars, deployLocals, childInput,
                   allocLocals, bootLocals, mailbox, owed, calls, completed,
                   err>>

(***************************************************************************)
(* Specifications.                                                         *)
(***************************************************************************)
Workflow ==
    \/ DeployStart
    \/ DeployGetPowerParams
    \/ DeployGetUserInfo
    \/ DeployCheckDiskStatus
    \/ DeploySetDeployParams
    \/ AllocProposeIP
    \/ AllocCheckIP
    \/ AllocClaimIPs
    \/ AllocReturn
    \/ EphPower
    \/ EphLease
    \/ EphAssets
    \/ EphDownload
    \/ EphFinished
    \/ EphReturn
    \/ DeploySetBootOrder
    \/ InstPower
    \/ InstLease
    \/ InstAssets
    \/ InstDownload
    \/ InstFinished
    \/ InstReturn
    \/ DeployUpdateNodeStatus

Activities ==
    \/ CompleteGetPowerParams
    \/ CompleteGetUserInfo

Next ==
    \/ Workflow
    \/ Activities
    \/ DeliverOwed
    \/ DeliverExtra
    \/ CloseChannel

Spec == Init /\ [][Next]_vars

\* the scheduler runs a workflow that can make progress, activities
\* complete, and the booting machine sends the events of its stage
LiveSpec ==
    /\ Init
    /\ [][Next]_vars
    /\ WF_vars(Workflow)
    /\ WF_vars(Activities)
    /\ WF_vars(DeliverOwed)

(***************************************************************************)
(* The OS-boot sub-flows with events that arrive early.  A signal sent to  *)
(* an execution is buffered in its channel until a Receive takes it, so    *)
(* the events of a stage can arrive in any order and before the sub-flow   *)
(* reaches their waits.                                                    *)
(***************************************************************************)
\* the machine sends any event of the stage it is booting that it has not
\* sent yet
DeliverOwedAnyOrder ==
    /\ pc \in BootPositions
    /\ \E e \in owed :
         LET channel == ChannelName(e[1], SystemID) IN
         /\ channel \notin closed
         /\ mailbox' = [mailbox EXCEPT ![channel] = Append(@, e[2])]
         /\ owed' = owed \ {e}
    /\ UNCHANGED <<fixedVars, pc, futureVars, deployLocals, childInput,
                   allocLocals, bootLocals, closed, extra, calls, completed,
                   err>>

BootWorkflow ==
    \/ EphPower
    \/ EphLease
    \/ EphAssets
    \/ EphDownload
    \/ EphFinished
    \/ EphReturn
    \/ InstPower
    \/ InstLease
    \/ InstAssets
    \/ InstDownload
    \/ InstFinished
    \/ InstReturn

\* one execution of DeployEphemeralOS or of DeployInstalledOS
EarlyInit ==
    /\ root \in {"deploy-ephemeral-os", "deploy-installed-os"}
    /\ Init

EarlyNext ==
    \/ BootWorkflow
    \/ DeliverOwedAnyOrder
    \/ DeliverExtra

\* the scheduler runs a sub-flow that can make progress and the booting
\* machine sends the events of its stage
EarlySpec ==
    /\ EarlyInit
    /\ [][EarlyNext]_vars
    /\ WF_vars(BootWorkflow)
    /\ WF_vars(DeliverOwedAnyOrder)


(***************************************************************************)
(* WorkerPool: AddWorker and RemoveWorkers, each under the pool's mutex.   *)
(***************************************************************************)
\* what no step of the pool or of Configure changes
workflowVars ==
    <<root, input, pc, futureVars, deployLocals, childInput, allocLocals,
      bootLocals, envVars, calls, completed, err, dhcpVars>>

\* p.workers[group], the nil slice when the group has no entry
Members(ws, group) == IF group \in DOMAIN ws THEN ws[group] ELSE <<>>

Occurrences(q, x) == Cardinality({i \in 1..Len(q) : q[i] = x})

\* for _, w := range workers { w.Stop() }
StopAll(cr, ids) ==
    [k \in 1..Len(cr) |->
       IF Occurrences(ids, k) = 0 THEN cr[k]
       ELSE [cr[k] EXCEPT !.state = "stopped",
                          !.stops = @ + Occurrences(ids, k)]]

\* the pool after RemoveWorkers(group)
RemoveWorkers(ws, cr, group) ==
    IF group \in DOMAIN ws
    THEN [workers |-> [g \in DOMAIN ws \ {group} |-> ws[g]],
          created |-> StopAll(cr, ws[group])]
    ELSE [workers |-> ws, created |-> cr]

\* the pool after AddWorker(group, tq, ...) called by execution e of
\* Configure, and the error it returns; started is the outcome of w.Start()
AddWorker(ws, cr, group, tq, e, started) ==
    LET w == Len(cr) + 1
        new == [taskQueue |-> tq, group |-> group, by |-> e,
                state |-> IF started THEN "running" ELSE "failed",
                stops |-> 0]
    IN  IF started
        THEN [workers |-> [g \in DOMAIN ws \cup {group} |->
                             IF g = group THEN Append(Members(ws, group), w)
                             ELSE ws[g]],
              created |-> Append(cr, new),
              err |-> "nil"]
        ELSE [workers |-> ws, created |-> Append(cr, new),
              err |-> "StartError"]

(***************************************************************************)
(* DeployService.Configure.  The executions run one after the other; the   *)
(* mutex of the pool is released between two calls of one execution.       *)
(***************************************************************************)
\* ConfigureStart leaving the workers of the group in place
ConfigureStart_KeepWorkers(e) ==
    /\ cfg[e].pc = "idle"
    /\ e > 1 => cfg[e - 1].pc = "done"
    /\ cfg' = [cfg EXCEPT ![e].pc = "get_vlans"]
    /\ UNCHANGED <<workflowVars, callVars, fatalVars, workers, created>>

\* s.pool.RemoveWorkers(deployServiceWorkerPoolGroup), then the activity
\* get-rack-controller-vlans is scheduled
ConfigureStart(e) ==
    /\ cfg[e].pc = "idle"
    /\ e > 1 => cfg[e - 1].pc = "done"
    /\ LET r == RemoveWorkers(workers, created, deployServiceWorkerPoolGroup)
       IN  /\ workers' = r.workers
           /\ created' = r.created
    /\ cfg' = [cfg EXCEPT ![e].pc = "get_vlans"]
    /\ UNCHANGED <<workflowVars, callVars, fatalVars>>

\* err := ExecuteActivity(..., "get-rack-controller-vlans", param).Get(ctx, &vlansResult)
ConfigureGetVLANs(e) ==
    /\ cfg[e].pc = "get_vlans"
    /\ \E ok \in BOOLEAN :
         IF ~ok
         THEN cfg' = [cfg EXCEPT ![e].pc = "done", ![e].err = ActivityError]
         ELSE \E vlans \in VLANLists :
              cfg' = [cfg EXCEPT ![e].pc = "add_worker", ![e].vlans = vlans,
                                 ![e].i = 1]
    /\ UNCHANGED <<workflowVars, callVars, fatalVars, workers, created>>

\* ConfigureAddWorker going on with the next segment after a failed start
ConfigureAddWorker_ContinueOnError(e) ==
    /\ cfg[e].pc = "add_worker"
    /\ cfg[e].i <= Len(cfg[e].vlans)
    /\ \E started \in BOOLEAN :
         LET r == AddWorker(workers, created, deployServiceWorkerPoolGroup,
                            taskQueue(cfg[e].vlans[cfg[e].i]), e, started)
         IN  /\ workers' = r.workers
             /\ created' = r.created
             /\ cfg' = [cfg EXCEPT ![e].i = @ + 1, ![e].err = r.err]
    /\ UNCHANGED <<workflowVars, callVars, fatalVars>>

\* ConfigureAddWorker adding no worker for a segment the list named before
ConfigureAddWorker_SkipRepeated(e) ==
    /\ cfg[e].pc = "add_worker"
    /\ cfg[e].i <= Len(cfg[e].vlans)
    /\ IF \E k \in 1..(cfg[e].i - 1) : cfg[e].vlans[k] = cfg[e].vlans[cfg[e].i]
       THEN /\ cfg' = [cfg EXCEPT ![e].i = @ + 1]
            /\ UNCHANGED <<workers, created>>
       ELSE \E started \in BOOLEAN :
            LET r == AddWorker(workers, created, deployServiceWorkerPoolGroup,
                               taskQueue(cfg[e].vlans[cfg[e].i]), e, started)
            IN  /\ workers' = r.workers
                /\ created' = r.created
                /\ cfg' = IF r.err = "nil"
                          THEN [cfg EXCEPT ![e].i = @ + 1]
                          ELSE [cfg EXCEPT ![e].pc = "teardown",
                                           ![e].err = r.err]
    /\ UNCHANGED <<workflowVars, callVars, fatalVars>>

\* one iteration of "for _, vlan := range vlansResult.VLANs"
ConfigureAddWorker(e) ==
    /\ cfg[e].pc = "add_worker"
    /\ cfg[e].i <= Len(cfg[e].vlans)
    /\ \E started \in BOOLEAN :
         LET r == AddWorker(workers, created, deployServiceWorkerPoolGroup,
                            taskQueue(cfg[e].vlans[cfg[e].i]), e, started)
         IN  /\ workers' = r.workers
             /\ created' = r.created
             /\ cfg' = IF r.err = "nil"
                       THEN [cfg EXCEPT ![e].i = @ + 1]
                       ELSE [cfg EXCEPT ![e].pc = "teardown",
                                        ![e].err = r.err]
    /\ UNCHANGED <<workflowVars, callVars, fatalVars>>

\* ConfigureTeardown returning the error without emptying the group
ConfigureTeardown_ReturnOnly(e) ==
    /\ cfg[e].pc = "teardown"
    /\ cfg' = [cfg EXCEPT ![e].pc = "done"]
    /\ UNCHANGED <<workflowVars, callVars, fatalVars, workers, created>>

\* s.pool.RemoveWorkers(deployServiceWorkerPoolGroup); return err
ConfigureTeardown(e) ==
    /\ cfg[e].pc = "teardown"
    /\ LET r == RemoveWorkers(workers, created, deployServiceWorkerPoolGroup)
       IN  /\ workers' = r.workers
           /\ created' = r.created
    /\ cfg' = [cfg EXCEPT ![e].pc = "done"]
    /\ UNCHANGED <<workflowVars, callVars, fatalVars>>

\* the loop is over: return nil
ConfigureReturn(e) ==
    /\ cfg[e].pc = "add_worker"
    /\ cfg[e].i > Len(cfg[e].vlans)
    /\ cfg' = [cfg EXCEPT ![e].pc = "done"]
    /\ UNCHANGED <<workflowVars, callVars, fatalVars, workers, created>>

Configure(e) ==
    \/ ConfigureStart(e)
    \/ ConfigureGetVLANs(e)
    \/ ConfigureAddWorker(e)
    \/ ConfigureTeardown(e)
    \/ ConfigureReturn(e)

\* a fresh pool; no workflow execution is followed
PoolInit ==
    /\ root = "allocate-ip"
    /\ Init

PoolNext == \E e \in Execs : Configure(e)

PoolSpec == PoolInit /\ [][PoolNext]_vars

(***************************************************************************)
(* Overlapping executions of Configure.  The main worker runs up to        *)
(* MaxConcurrentWorkflowTaskExecutionSize workflow tasks at once, and      *)
(* Configure takes no lock of its own: between two of its pool calls the   *)
(* mutex is free and another execution can make its calls.                 *)
(***************************************************************************)
MaxConcurrentWorkflowTaskExecutionSize == 2

\* the executions of Configure that have started and not returned
RunningConfigures == {e \in Execs : cfg[e].pc \notin {"idle", "done"}}

\* s.pool.RemoveWorkers(deployServiceWorkerPoolGroup) of an execution that
\* starts while earlier ones may still be running
ConfigureStartOverlapping(e) ==
    /\ cfg[e].pc = "idle"
    /\ e > 1 => cfg[e - 1].pc # "idle"
    /\ Cardinality(RunningConfigures) < MaxConcurrentWorkflowTaskExecutionSize
    /\ LET r == RemoveWorkers(workers, created, deployServiceWorkerPoolGroup)
       IN  /\ workers' = r.workers
           /\ created' = r.created
    /\ cfg' = [cfg EXCEPT ![e].pc = "get_vlans"]
    /\ UNCHANGED <<workflowVars, callVars, fatalVars>>

OverlapNext ==
    \E e \in Execs :
      \/ ConfigureStartOverlapping(e)
      \/ ConfigureGetVLANs(e)
      \/ ConfigureAddWorker(e)
      \/ ConfigureTeardown(e)
      \/ ConfigureReturn(e)

OverlapSpec == PoolInit /\ [][OverlapNext]_vars

(***************************************************************************)
(* WorkerPool.AddWorker and WorkerPool.RemoveWorkers called by goroutines  *)
(* on one pool, statement by statement.  Both take p.mutex first and       *)
(* release it on return (defer p.mutex.Unlock()).                          *)
(***************************************************************************)
\* an append that first drops the members bound to the new worker's queue
AppendWorker_ReplaceSameQueue(ws, group, w) ==
    [g \in DOMAIN ws \cup {group} |->
       IF g = group
       THEN Append(SelectSeq(Members(ws, group),
                             LAMBDA v : created[v].taskQueue
                                          # created[w].taskQueue), w)
       ELSE ws[g]]

\* the worker w joins the group: p.workers[group] = append(p.workers[group], w)
AppendWorker(ws, group, w) ==
    [g \in DOMAIN ws \cup {group} |->
       IF g = group THEN Append(Members(ws, group), w) ELSE ws[g]]

\* AddWorker entered without taking the mutex
AddWorkerLock_NoMutex(t, group, tq) ==
    /\ thr[t].pc = "idle"
    /\ ncalls < MaxCalls
    /\ ncalls' = ncalls + 1
    /\ thr' = [thr EXCEPT ![t] =
                 [IdleThread EXCEPT !.pc = "add_start", !.op = "AddWorker",
                                    !.group = group, !.taskQueue = tq,
                                    !.before = workers,
                                    !.createdBefore = created]]
    /\ UNCHANGED <<workflowVars, poolVars, fatalVars, mutex, log>>

\* p.mutex.Lock() of AddWorker(group, tq, ...)
AddWorkerLock(t, group, tq) ==
    /\ thr[t].pc = "idle"
    /\ ncalls < MaxCalls
    /\ mutex = 0
    /\ mutex' = t
    /\ ncalls' = ncalls + 1
    /\ thr' = [thr EXCEPT ![t] =
                 [IdleThread EXCEPT !.pc = "add_start", !.op = "AddWorker",
                                    !.group = group, !.taskQueue = tq,
                                    !.before = workers,
                                    !.createdBefore = created]]
    /\ UNCHANGED <<workflowVars, poolVars, fatalVars, log>>

\* AddWorker keeping a worker that failed to start
AddWorkerStart_KeepFailed(t) ==
    /\ thr[t].pc = "add_start"
    /\ \E started \in BOOLEAN :
         /\ created' = AddWorker(workers, created, thr[t].group,
                                 thr[t].taskQueue, 0, started).created
         /\ thr' = [thr EXCEPT ![t].w = Len(created) + 1,
                               ![t].err = IF started THEN "nil"
                                          ELSE "StartError",
                               ![t].pc = "add_append"]
    /\ UNCHANGED <<workflowVars, fatalVars, workers, cfg, mutex, ncalls, log>>

\* w := p.constructor(...); register; if err := w.Start(); err != nil
\* { w = nil; return err }
AddWorkerStart(t) ==
    /\ thr[t].pc = "add_start"
    /\ \E started \in BOOLEAN :
         /\ created' = AddWorker(workers, created, thr[t].group,
                                 thr[t].taskQueue, 0, started).created
         /\ thr' = [thr EXCEPT ![t].w = Len(created) + 1,
                               ![t].err = IF started THEN "nil"
                                          ELSE "StartError",
                               ![t].pc = IF started THEN "add_append"
                                         ELSE "unlock"]
    /\ UNCHANGED <<workflowVars, fatalVars, workers, cfg, mutex, ncalls, log>>

\* p.workers[group] = append(p.workers[group], w); return nil
AddWorkerAppend(t) ==
    /\ thr[t].pc = "add_append"
    /\ workers' = AppendWorker(workers, thr[t].group, thr[t].w)
    /\ thr' = [thr EXCEPT ![t].pc = "unlock"]
    /\ UNCHANGED <<workflowVars, fatalVars, created, cfg, mutex, ncalls, log>>

\* RemoveWorkers entered without taking the mutex
RemoveWorkersLock_NoMutex(t, group) ==
    /\ thr[t].pc = "idle"
    /\ ncalls < MaxCalls
    /\ ncalls' = ncalls + 1
    /\ thr' = [thr EXCEPT ![t] =
                 [IdleThread EXCEPT !.pc = "rm_lookup",
                                    !.op = "RemoveWorkers",
                                    !.group = group,
                                    !.before = workers,
                                    !.createdBefore = created]]
    /\ UNCHANGED <<workflowVars, poolVars, fatalVars, mutex, log>>

\* p.mutex.Lock() of RemoveWorkers(group)
RemoveWorkersLock(t, group) ==
    /\ thr[t].pc = "idle"
    /\ ncalls < MaxCalls
    /\ mutex = 0
    /\ mutex' = t
    /\ ncalls' = ncalls + 1
    /\ thr' = [thr EXCEPT ![t] =
                 [IdleThread EXCEPT !.pc = "rm_lookup",
                                    !.op = "RemoveWorkers",
                                    !.group = group,
                                    !.before = workers,
                                    !.createdBefore = created]]
    /\ UNCHANGED <<workflowVars, poolVars, fatalVars, log>>

\* if workers, ok := p.workers[group]; ok { ... }
RemoveWorkersLookup(t) ==
    /\ thr[t].pc = "rm_lookup"
    /\ thr' = [thr EXCEPT ![t].ids = Members(workers, thr[t].group),
                          ![t].pc = IF thr[t].group \in DOMAIN workers
                                    THEN "rm_stop" ELSE "unlock"]
    /\ UNCHANGED <<workflowVars, poolVars, fatalVars, mutex, ncalls, log>>

\* RemoveWorkers that stops only the first worker of the group
RemoveWorkersStop_FirstOnly(t) ==
    /\ thr[t].pc = "rm_stop"
    /\ created' = StopAll(created, SubSeq(thr[t].ids, 1, 1))
    /\ thr' = [thr EXCEPT ![t].pc = "rm_delete"]
    /\ UNCHANGED <<workflowVars, fatalVars, workers, cfg, mutex, ncalls, log>>

\* for _, w := range workers { w.Stop() }
RemoveWorkersStop(t) ==
    /\ thr[t].pc = "rm_stop"
    /\ created' = StopAll(created, thr[t].ids)
    /\ thr' = [thr EXCEPT ![t].pc = "rm_delete"]
    /\ UNCHANGED <<workflowVars, fatalVars, workers, cfg, mutex, ncalls, log>>

\* delete(p.workers, group)
RemoveWorkersDelete(t) ==
    /\ thr[t].pc = "rm_delete"
    /\ workers' = [g \in DOMAIN workers \ {thr[t].group} |-> workers[g]]
    /\ thr' = [thr EXCEPT ![t].pc = "unlock"]
    /\ UNCHANGED <<workflowVars, fatalVars, created, cfg, mutex, ncalls, log>>

\* defer p.mutex.Unlock(): the call returns
Unlock(t) ==
    /\ thr[t].pc = "unlock"
    /\ mutex' = IF mutex = t THEN 0 ELSE mutex
    /\ log' = Append(log, [op |-> thr[t].op, group |-> thr[t].group,
                           err |-> thr[t].err])
    /\ thr' = [thr EXCEPT ![t] = IdleThread]
    /\ UNCHANGED <<workflowVars, poolVars, fatalVars, ncalls>>

\* func (p *WorkerPool) Start() error { return p.main.Start() }
PoolStart ==
    /\ main.state = "constructed"
    /\ \E started \in BOOLEAN :
         main' = [main EXCEPT !.state = IF started THEN "running"
                                       ELSE "failed"]
    /\ UNCHANGED <<workflowVars, poolVars, callVars, fatal, reports,
                   errorCall>>

CallsNext ==
    \/ PoolStart
    \/ \E t \in Threads :
         \/ \E group \in Groups, tq \in TaskQueues :
              AddWorkerLock(t, group, tq)
         \/ AddWorkerStart(t)
         \/ AddWorkerAppend(t)
         \/ \E group \in Groups : RemoveWorkersLock(t, group)
         \/ RemoveWorkersLookup(t)
         \/ RemoveWorkersStop(t)
         \/ RemoveWorkersDelete(t)
         \/ Unlock(t)

CallsSpec == PoolInit /\ [][CallsNext]_vars

(***************************************************************************)
(* The fault channel.  WorkerPool.fatal is declared "chan error" and       *)
(* NewWorkerPool leaves it at its zero value; the OnFatalError callback of *)
(* every worker sends on it and WorkerPool.Error() receives from it.  A    *)
(* send blocks until a receive takes it (the channel has no buffer), and   *)
(* sends and receives on a nil channel block forever.                      *)
(***************************************************************************)
\* the main worker of the pool
MainWorker == 0

\* the workers whose callback can be invoked: main and the started ones
LiveWorkers ==
    (IF main.state = "running" THEN {MainWorker} ELSE {})
    \cup {w \in 1..Len(created) : created[w].state = "running"}

\* the k-th fatal error that a worker reports
FatalError(k) == <<"fatal", k>>

\* a receive can take the send of report i
CanReceive(i) == fatal # NilChannel /\ ~reports[i].sent

\* OnFatalError: func(err error) { p.fatal <- err }, invoked by worker w
ReportFatal(w) ==
    /\ w \in LiveWorkers
    /\ Len(reports) < MaxReports
    /\ reports' = Append(reports, [worker |-> w,
                                   err |-> FatalError(Len(reports) + 1),
                                   sent |-> FALSE])
    /\ UNCHANGED <<workflowVars, poolVars, callVars, fatal, errorCall, main>>

\* func (p *WorkerPool) Error() error { return <-p.fatal }
WorkerPoolError ==
    /\ errorCall.pc \in {"idle", "receiving"}
    /\ IF errorCall.pc = "idle"
       THEN /\ errorCall' = [errorCall EXCEPT !.pc = "receiving"]
            /\ UNCHANGED reports
       ELSE \E i \in 1..Len(reports) :
              /\ CanReceive(i)
              /\ errorCall' = [pc |-> "returned", result |-> reports[i].err]
              /\ reports' = [reports EXCEPT ![i].sent = TRUE]
    /\ UNCHANGED <<workflowVars, poolVars, callVars, fatal, main>>

\* one execution of Configure brings the auxiliary workers
FatalNext ==
    \/ PoolStart
    \/ Configure(1)
    \/ \E w \in 0..Len(created) : ReportFatal(w)
    \/ WorkerPoolError

\* the goroutine blocked in Error() runs when its receive can proceed
FatalSpec ==
    /\ PoolInit
    /\ [][FatalNext]_vars
    /\ WF_vars(WorkerPoolError)

(***************************************************************************)
(* Vocabulary of the properties.                                           *)
(***************************************************************************)
Issued(op) == op \in CallOps

Succeeded(op) ==
    \E i \in 1..Len(calls) : calls[i].op = op /\ calls[i].result = "ok"

Returned(op) ==
    \E i \in 1..Len(calls) : calls[i].op = op /\ calls[i].result = "err"

AllocOps == {"propose-ip", "check-ip", "claim-ips"}

\* the root workflow returned an error
Errored == pc = "done" /\ err.kind \notin {NoError.kind, Running.kind}

\* Deploy has read the result of get-user-info
UserInfoReported ==
    /\ powerParamsFuture = "ok"
    /\ userInfoFuture = "ok"
    /\ pc \notin {"deploy_start", "deploy_get_power_params",
                  "deploy_get_user_info"}

Permitted ==
    ~(input.InstallKVM \/ input.RegisterVMHost) \/ userInfo.IsSuperuser

(***************************************************************************)
(* C1.  A Deploy request that passes the prechecks (resolved status ready  *)
(* or allocated, requester permitted, ephemeral or not diskless), whose    *)
(* remote operations all succeed and whose machine sends the events of     *)
(* each boot stage, eventually returns nil after exactly one               *)
(* update-node-status call, with status deployed.                          *)
(***************************************************************************)
DeployedOnce ==
    /\ err = NoError
    /\ \E i \in 1..Len(calls) :
         /\ calls[i].op = "update-node-status"
         /\ calls[i].Status = NodeStatusDeployed
         /\ \A j \in 1..Len(calls) :
              calls[j].op = "update-node-status" => j = i

C1_DeployReachesDeployed ==
    root = "deploy" =>
      <>(/\ pc = "done"
         /\ \/ err.kind \in {ActivityError, ErrSignalClosed}
            \/ ~UserInfoReported
            \/ ~Permitted
            \/ (~input.EphemeralDeploy /\ diskStatus.Diskless)
            \/ deployParams.Status \notin {NodeStatusReady,
                                           NodeStatusAllocated}
            \/ DeployedOnce)

(***************************************************************************)
(* C2.  In a Deploy execution a power operation is issued only after       *)
(* propose-ip, the verify child and claim-ips have all succeeded and       *)
(* AllocateIPs has returned; when one of them fails Deploy has failed and  *)
(* no power operation has been issued.                                     *)
(***************************************************************************)
C2_PowerOnlyAfterAllocation ==
    root = "deploy" =>
      /\ \A i \in 1..Len(calls) :
           calls[i].op \in PowerOps =>
             /\ "allocate-ip" \in Range(completed)
             /\ \A op \in AllocOps :
                  \E j \in 1..(i - 1) :
                    calls[j].op = op /\ calls[j].result = "ok"
      /\ (\E op \in AllocOps : Returned(op)) =>
           /\ Errored
           /\ CallOps \cap PowerOps = {}

C2_Witness ==
    /\ root = "deploy"
    /\ CallOps \cap PowerOps # {}

(***************************************************************************)
(* C3.  When InstallKVM or RegisterVMHost is set and get-user-info reports *)
(* a requester who is not a superuser, Deploy has failed with              *)
(* ErrInsufficientUserPermissions and the only operations issued are       *)
(* get-power-params and get-user-info.                                     *)
(***************************************************************************)
C3_UnprivilegedKVMFails ==
    (/\ root = "deploy"
     /\ input.InstallKVM \/ input.RegisterVMHost
     /\ UserInfoReported
     /\ ~userInfo.IsSuperuser) =>
      /\ pc = "done"
      /\ err.kind = ErrInsufficientUserPermissions
      /\ CallOps = {"get-power-params", "get-user-info"}
      /\ Len(calls) = 2

C3_Witness ==
    /\ root = "deploy"
    /\ ~input.InstallKVM
    /\ input.RegisterVMHost
    /\ UserInfoReported
    /\ ~userInfo.IsSuperuser

(***************************************************************************)
(* C4.  When a non-ephemeral request has passed the permission check and   *)
(* check-disk-status reports a diskless machine, Deploy has failed with    *)
(* ErrInvalidStorageConfig and has issued no set-deploy-params, no address *)
(* allocation call and no power operation; an ephemeral request never      *)
(* issues check-disk-status.                                               *)
(***************************************************************************)
C4_DisklessFailsBeforeAllocation ==
    root = "deploy" =>
      /\ (/\ ~input.EphemeralDeploy
          /\ Succeeded("check-disk-status")
          /\ diskStatus.Diskless) =>
           /\ pc = "done"
           /\ err.kind = ErrInvalidStorageConfig
           /\ CallOps = {"get-power-params", "get-user-info",
                         "check-disk-status"}
      /\ input.EphemeralDeploy => ~Issued("check-disk-status")

C4_Witness ==
    /\ root = "deploy"
    /\ ~input.EphemeralDeploy
    /\ Succeeded("check-disk-status")
    /\ diskStatus.Diskless

(***************************************************************************)
(* C5.  When set-deploy-params returns a status other than ready and       *)
(* allocated, Deploy has failed with ErrInvalidNodeStatus and has issued   *)
(* no address allocation call, no power operation and no                   *)
(* update-node-status.                                                     *)
(***************************************************************************)
C5_InvalidStatusFails ==
    (/\ root = "deploy"
     /\ Succeeded("set-deploy-params")
     /\ deployParams.Status \notin {NodeStatusReady, NodeStatusAllocated}) =>
      /\ pc = "done"
      /\ err.kind = ErrInvalidNodeStatus
      /\ CallOps \cap (AllocOps \cup PowerOps \cup {"update-node-status"}) = {}

C5_Witness ==
    /\ root = "deploy"
    /\ Succeeded("set-deploy-params")
    /\ deployParams.Status = NodeStatusDeploying


(***************************************************************************)
(* C6.  The address list submitted to claim-ips has the length of the      *)
(* candidate list of propose-ip, and its entry i is the absent marker      *)
(* exactly when candidate i was reported in use by the verify child, and   *)
(* candidate i itself otherwise.                                           *)
(***************************************************************************)
\* claim-ips has been issued and the locals of AllocateIPs are still alive
ClaimSubmitted == Issued("claim-ips") /\ "allocate-ip" \notin Range(completed)

C7_ConflictSurfaced ==
    checkIPResult # {} =>
      \/ pc = "alloc_claim"
      \/ pc = "done" /\ err.kind = ErrIPAllocationConflict

(***************************************************************************)
(* C8.  With two distinct required names, the boot-asset wait of           *)
(* DeployEphemeralOS is over exactly when every required name is among the *)
(* signals it has received: it is still waiting while one is missing, it   *)
(* stops with the signal that brings the last missing one, whatever the    *)
(* order, the repetitions and the foreign names received in between.       *)
(***************************************************************************)
RequiredAssets == Range(EphemeralBootAssets(childInput.DeployParams))

DistinctRequired == Cardinality(RequiredAssets) = 2

AllButLast(q) == SubSeq(q, 1, Len(q) - 1)

C8_AssetWaitCompletesExactly ==
    DistinctRequired =>
      /\ pc = "eph_assets" => ~(RequiredAssets \subseteq Range(consumed.assets))
      /\ pc \in {"eph_download", "eph_finished", "eph_return"} =>
           /\ RequiredAssets \subseteq Range(consumed.assets)
           /\ ~(RequiredAssets \subseteq Range(AllButLast(consumed.assets)))

C8_Witness ==
    /\ DistinctRequired
    /\ pc = "eph_download"
    /\ consumed.assets = <<"ga-22.04", "other", "ubuntu/focal">>

(***************************************************************************)
(* C9.  A boot-asset wait with nothing left to wait for is over: no        *)
(* execution sits in the wait of checkAllBootAssets with an empty set of   *)
(* pending assets, so the installed variant needs no boot-assets signal.   *)
(***************************************************************************)
C9_EmptyAssetSetNeedsNoEvent ==
    pc \in {"eph_assets", "inst_assets"} => bootAssets.len > 0

(***************************************************************************)
(* C10.  The lease wait is left only on a lease of the boot interface:     *)
(* while an execution is in the wait every lease it has received was for   *)
(* another interface, and once it is past the wait the last lease it       *)
(* received, and only the last, was for the boot interface.                *)
(***************************************************************************)
PastLeaseWait ==
    pc \in {"eph_assets", "eph_download", "eph_finished", "eph_return",
            "inst_assets", "inst_download", "inst_finished", "inst_return"}

C10_LeaseWaitEndsOnBootInterface ==
    /\ pc \in {"eph_lease", "inst_lease"} =>
         /\ \A i \in 1..Len(consumed.leases) : ~consumed.leases[i]
         /\ leaseSig.set => ~leaseSig.IsBootInterface
    /\ PastLeaseWait =>
         /\ consumed.leases # <<>>
         /\ consumed.leases[Len(consumed.leases)]
         /\ \A i \in 1..(Len(consumed.leases) - 1) : ~consumed.leases[i]
         /\ leaseSig.set /\ leaseSig.IsBootInterface

C10_Witness ==
    /\ PastLeaseWait
    /\ consumed.leases = <<FALSE, TRUE>>

(***************************************************************************)
(* C11.  In each OS-boot sub-flow the signals are received in the order    *)
(* boot-interface lease wait, boot-asset wait, stage-start event,          *)
(* stage-finished event, and each position of the sub-flow is reached only *)
(* with the receipts of the waits before it; the sub-flow returns only     *)
(* after exactly one stage-start and then one stage-finished event of its  *)
(* own kind (curtin for the ephemeral variant, cloud-init for the          *)
(* installed one) were received, in that order and after a lease and a     *)
(* boot-asset signal.                                                      *)
(***************************************************************************)
EphPositions ==
    {"eph_power", "eph_lease", "eph_assets", "eph_download", "eph_finished",
     "eph_return"}

InstPositions ==
    {"inst_power", "inst_lease", "inst_assets", "inst_download",
     "inst_finished", "inst_return"}

WaitRank(kind) ==
    IF kind = "leases" THEN 1
    ELSE IF kind = "boot-assets" THEN 2
    ELSE IF kind \in {"curtin-download", "cloud-init-download"} THEN 3
    ELSE 4

\* the kinds of q never step back to an earlier wait
WaitsInOrder(q) ==
    \A i \in 1..Len(q) : \A j \in i..Len(q) : WaitRank(q[i]) <= WaitRank(q[j])

\* q is: leases, then boot-asset signals, then the given suffix
StageReceipts(q, suffix) ==
    LET n == Len(q) - Len(suffix) IN
    /\ n >= 2
    /\ SubSeq(q, n + 1, Len(q)) = suffix
    /\ q[1] = "leases"
    /\ q[n] = "boot-assets"
    /\ \A i \in 1..n : q[i] \in {"leases", "boot-assets"}
    /\ WaitsInOrder(q)

C11_BootWaitsInOrder ==
    /\ WaitsInOrder(consumed.order)
    /\ pc \in {"eph_power", "inst_power"} => consumed.order = <<>>
    /\ pc \in {"eph_lease", "inst_lease"} =>
         Range(consumed.order) \subseteq {"leases"}
    /\ pc \in {"eph_assets", "inst_assets"} =>
         /\ consumed.order # <<>>
         /\ consumed.order[1] = "leases"
         /\ Range(consumed.order) \subseteq {"leases", "boot-assets"}
    /\ pc = "eph_download" => StageReceipts(consumed.order, <<>>)
    /\ pc = "inst_download" => StageReceipts(consumed.order, <<>>)
    /\ pc = "eph_finished" =>
         StageReceipts(consumed.order, <<"curtin-download">>)
    /\ pc = "inst_finished" =>
         StageReceipts(consumed.order, <<"cloud-init-download">>)
    /\ pc = "eph_return" =>
         StageReceipts(consumed.order,
                       <<"curtin-download", "curtin-finished">>)
    /\ pc = "inst_return" =>
         StageReceipts(consumed.order,
                       <<"cloud-init-download", "cloud-init-finished">>)

C11_Witness ==
    /\ root = "deploy"
    /\ pc = "eph_return"
    /\ consumed.order = <<"leases", "leases", "boot-assets", "boot-assets",
                          "curtin-download", "curtin-finished">>

(***************************************************************************)
(* C12.  With the power driver "manual" a sub-flow issues no power         *)
(* operation.  Otherwise DeployEphemeralOS issues exactly one: power-cycle *)
(* when the resolved power state is "on", power-on for any other state;    *)
(* DeployInstalledOS issues exactly one, power-cycle.  The operation has   *)
(* been issued, and has succeeded, when the first wait of the sub-flow     *)
(* starts, and nothing is received before it: while the sub-flow is at its *)
(* power step, and when the power operation failed, it has received no     *)
(* signal.                                                                 *)
(***************************************************************************)
\* index of the last call of op in the log, 0 when there is none
LastCall(op) ==
    LET S == {i \in 1..Len(calls) : calls[i].op = op}
    IN  IF S = {} THEN 0 ELSE CHOOSE i \in S : \A j \in S : j <= i

\* the calls of the running boot stage: Deploy runs DeployEphemeralOS before
\* set-boot-order and DeployInstalledOS after it
StageCalls == SubSeq(calls, LastCall("set-boot-order") + 1, Len(calls))

IsPowerCall(c) == c.op \in PowerOps

StagePowerCalls == SelectSeq(StageCalls, IsPowerCall)

OnePowerCall(op) ==
    /\ Len(StagePowerCalls) = 1
    /\ StagePowerCalls[1].op = op
    /\ StagePowerCalls[1].result = "ok"

C12_PowerOperationSelection ==
    /\ pc \in {"eph_power", "inst_power"} =>
         /\ StagePowerCalls = <<>>
         /\ consumed.order = <<>>
    /\ pc \in EphPositions \ {"eph_power"} =>
         IF childInput.PowerParams.PowerType = "manual"
         THEN StagePowerCalls = <<>>
         ELSE IF childInput.DeployParams.PowerState = "on"
              THEN OnePowerCall("power-cycle")
              ELSE OnePowerCall("power-on")
    /\ pc \in InstPositions \ {"inst_power"} =>
         IF childInput.PowerParams.PowerType = "manual"
         THEN StagePowerCalls = <<>>
         ELSE OnePowerCall("power-cycle")
    /\ (calls # <<>> /\ calls[Len(calls)].op \in PowerOps
          /\ calls[Len(calls)].result = "err") =>
         /\ pc = "done"
         /\ consumed.order = <<>>

C12_Witness ==
    /\ pc = "eph_lease"
    /\ consumed.order = <<>>
    /\ childInput.PowerParams.PowerType = "ipmi"
    /\ childInput.DeployParams.PowerState = "unknown"
    /\ OnePowerCall("power-on")

(***************************************************************************)
(* C13.  In a Deploy execution, once AllocateIPs has returned the next     *)
(* phase is DeployEphemeralOS, for ephemeral and non-ephemeral requests    *)
(* alike, and nothing of the later phases happens before it has returned   *)
(* nil.  An ephemeral request never issues set-boot-order and never runs   *)
(* DeployInstalledOS.  For a non-ephemeral request every set-boot-order    *)
(* call carries netboot=false and the machine of the request and is issued *)
(* after DeployEphemeralOS returned nil, and DeployInstalledOS runs only   *)
(* after set-boot-order has succeeded.                                     *)
(***************************************************************************)
LaterPhasePositions ==
    InstPositions \cup {"deploy_set_boot_order", "deploy_update_status"}

C13_PhaseOrder ==
    root = "deploy" =>
      /\ ("allocate-ip" \in Range(completed)
           /\ "deploy-ephemeral-os" \notin Range(completed)) =>
           /\ pc \in EphPositions \cup {"done"}
           /\ pc = "done" => Errored
           /\ ~Issued("set-boot-order")
           /\ ~Issued("update-node-status")
      /\ pc \in EphPositions => "allocate-ip" \in Range(completed)
      /\ input.EphemeralDeploy =>
           /\ ~Issued("set-boot-order")
           /\ pc \notin InstPositions \cup {"deploy_set_boot_order"}
           /\ "deploy-installed-os" \notin Range(completed)
      /\ \A i \in 1..Len(calls) :
           calls[i].op = "set-boot-order" =>
             /\ calls[i].Netboot = FALSE
             /\ calls[i].SystemID = input.SystemID
             /\ "deploy-ephemeral-os" \in Range(completed)
      /\ (pc \in InstPositions
           \/ "deploy-installed-os" \in Range(completed)) =>
           /\ ~input.EphemeralDeploy
           /\ Succeeded("set-boot-order")
           /\ "deploy-ephemeral-os" \in Range(completed)

C13_Witness ==
    /\ root = "deploy"
    /\ ~input.EphemeralDeploy
    /\ pc = "inst_power"
    /\ Succeeded("set-boot-order")

(***************************************************************************)
(* C14.  Deploy issues update-node-status only as its last call, with      *)
(* status deployed, after every phase before it succeeded: the prechecks   *)
(* passed, every earlier call returned nil, AllocateIPs and                *)
(* DeployEphemeralOS returned nil and, for a non-ephemeral request,        *)
(* set-boot-order and DeployInstalledOS too.  No call carries status       *)
(* failed-deployment.  A failed Deploy has issued a status write only when *)
(* the failing operation is update-node-status itself.                     *)
(***************************************************************************)
PhasesBeforeCompletionDone ==
    /\ powerParamsFuture = "ok"
    /\ userInfoFuture = "ok"
    /\ Permitted
    /\ Succeeded("set-deploy-params")
    /\ deployParams.Status \in {NodeStatusReady, NodeStatusAllocated}
    /\ "allocate-ip" \in Range(completed)
    /\ "deploy-ephemeral-os" \in Range(completed)
    /\ ~input.EphemeralDeploy =>
         /\ Succeeded("check-disk-status")
         /\ ~diskStatus.Diskless
         /\ Succeeded("set-boot-order")
         /\ "deploy-installed-os" \in Range(completed)

StatusWritesOnSuccessPath ==
    /\ \A i \in 1..Len(calls) :
         /\ calls[i].Status # NodeStatusFailedDeployment
         /\ calls[i].op = "update-node-status" =>
              /\ i = Len(calls)
              /\ calls[i].Status = NodeStatusDeployed
              /\ PhasesBeforeCompletionDone
              /\ \A j \in 1..(i - 1) : calls[j].result = "ok"
    /\ Issued("update-node-status") => pc = "done"

StatusWriteFailed ==
    /\ calls # <<>>
    /\ calls[Len(calls)].op = "update-node-status"
    /\ calls[Len(calls)].result = "err"

C14_StatusWriteOnlyAfterAllPhases ==
    root = "deploy" =>
      /\ StatusWritesOnSuccessPath
      /\ (Errored /\ Issued("update-node-status")) =>
           /\ StatusWriteFailed
           /\ err.kind = ActivityError
      /\ (Errored /\ ~StatusWriteFailed) => ~Issued("update-node-status")

C14_Witness ==
    /\ root = "deploy"
    /\ ~input.EphemeralDeploy
    /\ Errored
    /\ StatusWriteFailed

\* C14 as stated: on every failing path, remote-operation failures
\* included, Deploy has issued no status write at all
C14_NoStatusWriteOnAnyFailingPath ==
    root = "deploy" =>
      /\ StatusWritesOnSuccessPath
      /\ Errored => ~Issued("update-node-status")

(***************************************************************************)
(* C15.  In a Deploy execution a call that returned an error is the last   *)
(* call issued and Deploy has returned an error; for the two prechecks,    *)
(* which are issued together, nothing but the pair has been issued and     *)
(* Deploy has returned an error as soon as it has read the failed result.  *)
(* Once Deploy has returned an error (a failed call, a failed sub-flow, a  *)
(* failed precondition) it issues nothing more.  Only the operations of    *)
(* the phases are ever issued: none that undoes a claim, a power operation *)
(* or a boot-order change.                                                 *)
(***************************************************************************)
DeployOps ==
    {"get-power-params", "get-user-info", "check-disk-status",
     "set-deploy-params", "propose-ip", "check-ip", "claim-ips", "power-on",
     "power-cycle", "set-boot-order", "update-node-status"}

ErrorEndsDeploy ==
    /\ CallOps \subseteq DeployOps
    /\ \A i \in 1..Len(calls) :
         calls[i].result = "err" =>
           IF calls[i].op \in {"get-power-params", "get-user-info"}
           THEN /\ Len(calls) = 2
                /\ \/ Errored
                   \/ pc = "deploy_get_power_params"
                   \/ pc = "deploy_get_user_info" /\ i = 2
           ELSE /\ i = Len(calls)
                /\ Errored
    /\ err.kind \notin {NoError.kind, Running.kind} => pc = "done"

NothingAfterError ==
    Errored => /\ Len(calls') = Len(calls)
               /\ \A i \in 1..Len(calls) : calls'[i].op = calls[i].op
               /\ pc' = pc
               /\ err' = err
               /\ completed' = completed

C15_ErrorAbortsWithoutCompensation ==
    /\ [](root = "deploy" => ErrorEndsDeploy)
    /\ [][root = "deploy" => NothingAfterError]_vars

C15_Witness ==
    /\ root = "deploy"
    /\ Errored
    /\ calls[Len(calls)].op = "set-boot-order"
    /\ calls[Len(calls)].result = "err"
    /\ Succeeded("claim-ips")
    /\ Succeeded("power-on")

(***************************************************************************)
(* C16.  When the channel a wait receives from is closed and drained, the  *)
(* only step the execution takes from that wait ends it with               *)
(* ErrSignalClosed: nothing is received, no call is issued, no other wait  *)
(* is entered.  ErrSignalClosed arises in no other way, and after it the   *)
(* execution takes no step at all: no retry of the wait, no later wait, no *)
(* later remote operation.                                                 *)
(***************************************************************************)
WaitPositions ==
    {"eph_lease", "eph_assets", "eph_download", "eph_finished",
     "inst_lease", "inst_assets", "inst_download", "inst_finished"}

WaitKind(p) ==
    IF p \in {"eph_lease", "inst_lease"} THEN "leases"
    ELSE IF p \in {"eph_assets", "inst_assets"} THEN "boot-assets"
    ELSE IF p = "eph_download" THEN "curtin-download"
    ELSE IF p = "eph_finished" THEN "curtin-finished"
    ELSE IF p = "inst_download" THEN "cloud-init-download"
    ELSE "cloud-init-finished"

AwaitedChannelClosed ==
    /\ pc \in WaitPositions
    /\ SignalClosed(ChannelName(WaitKind(pc), childInput.SystemID))

ExecutionVars ==
    <<pc, err, calls, completed, consumed, leaseSig, bootAssets, childInput>>

ClosedWaitFails ==
    (AwaitedChannelClosed /\ ExecutionVars' # ExecutionVars) =>
      /\ pc' = "done"
      /\ err' = [kind |-> ErrSignalClosed, systemID |-> ""]
      /\ calls' = calls
      /\ consumed' = consumed
      /\ completed' = completed
      /\ mailbox' = mailbox

ClosedErrorOnlyFromClosedWait ==
    (err'.kind = ErrSignalClosed /\ err.kind # ErrSignalClosed) =>
      AwaitedChannelClosed

NothingAfterClosedError ==
    err.kind = ErrSignalClosed =>
      /\ pc = "done"
      /\ ExecutionVars' = ExecutionVars

C16_ClosedChannelFailsTheWait ==
    /\ [][ClosedWaitFails]_vars
    /\ [][ClosedErrorOnlyFromClosedWait]_vars
    /\ [][NothingAfterClosedError]_vars

C16_Witness ==
    /\ root = "deploy"
    /\ err.kind = ErrSignalClosed
    /\ pc = "done"
    /\ consumed.order = <<"leases", "boot-assets", "boot-assets">>
    /\ ~Issued("set-boot-order")

(***************************************************************************)
(* C17.  One execution issues claim-ips at most once and set-boot-order at *)
(* most once, and each OS-boot sub-flow issues at most one power           *)
(* operation: at most one before set-boot-order and at most one after it,  *)
(* hence at most one for an ephemeral Deploy and at most two for a         *)
(* non-ephemeral one.                                                      *)
(***************************************************************************)
Count(op) == Cardinality({i \in 1..Len(calls) : calls[i].op = op})

PowerCalls == SelectSeq(calls, IsPowerCall)

\* the power calls issued before the running boot stage
EarlierPowerCalls ==
    SelectSeq(SubSeq(calls, 1, LastCall("set-boot-order")), IsPowerCall)

C17_NoDoubleSideEffects ==
    /\ Count("claim-ips") <= 1
    /\ Count("set-boot-order") <= 1
    /\ Len(EarlierPowerCalls) <= 1
    /\ Len(StagePowerCalls) <= 1
    /\ Len(PowerCalls) <= (IF root = "deploy" /\ ~input.EphemeralDeploy
                            THEN 2 ELSE 1)

C17_Witness ==
    /\ root = "deploy"
    /\ ~input.EphemeralDeploy
    /\ pc = "inst_lease"
    /\ Count("claim-ips") = 1
    /\ Count("set-boot-order") = 1
    /\ Len(EarlierPowerCalls) = 1
    /\ Len(StagePowerCalls) = 1

(***************************************************************************)
(* C18.  A Deploy execution issues get-power-params exactly once and       *)
(* set-deploy-params at most once.  Each OS-boot sub-flow it runs is       *)
(* handed the machine of the request and the power and deployment          *)
(* parameters Deploy holds, and those do not change from the start of      *)
(* DeployEphemeralOS on: DeployInstalledOS is handed what DeployEphemeralOS*)
(* was handed.                                                             *)
(***************************************************************************)
ParamsHandedOn ==
    /\ pc # "deploy_start" => Count("get-power-params") = 1
    /\ Count("set-deploy-params") <= 1
    /\ pc \in EphPositions \cup InstPositions =>
         childInput = [SystemID |-> input.SystemID,
                       PowerParams |-> powerParams,
                       DeployParams |-> deployParams]

ParamsKept ==
    "allocate-ip" \in Range(completed) =>
      /\ powerParams' = powerParams
      /\ deployParams' = deployParams
      /\ (pc \in EphPositions /\ pc' \in EphPositions) =>
           childInput' = childInput
      /\ (pc \in InstPositions /\ pc' \in InstPositions) =>
           childInput' = childInput

C18_ParametersResolvedOnce ==
    /\ [](root = "deploy" => ParamsHandedOn)
    /\ [][root = "deploy" => ParamsKept]_vars

C18_Witness ==
    /\ root = "deploy"
    /\ pc = "inst_lease"
    /\ childInput.PowerParams = [PowerType |-> "ipmi"]
    /\ childInput.DeployParams.PowerState = "off"
    /\ Count("get-power-params") = 1
    /\ Count("set-deploy-params") = 1

(***************************************************************************)
(* C19.  When no Configure execution is in progress and the last one       *)
(* returned nil with segment list S, the deploy-service group holds        *)
(* exactly Len(S) workers, the i-th one constructed by that execution on   *)
(* the task queue of S[i] and running, each a different worker; every      *)
(* worker constructed by an earlier execution is in no group and is not    *)
(* running.                                                                *)
(***************************************************************************)
\* the last execution of Configure that has started, 0 when none has
LastConfigure ==
    LET S == {e \in Execs : cfg[e].pc # "idle"}
    IN  IF S = {} THEN 0 ELSE CHOOSE e \in S : \A f \in S : f <= e

NoConfigureRunning == \A e \in Execs : cfg[e].pc \in {"idle", "done"}

DeployGroup == Members(workers, deployServiceWorkerPoolGroup)

InSomeGroup(w) == \E g \in DOMAIN workers : w \in Range(workers[g])

C19_GroupMatchesLastConfigure ==
    (/\ NoConfigureRunning
     /\ LastConfigure >= 1
     /\ cfg[LastConfigure].err = "nil") =>
      LET S == cfg[LastConfigure].vlans IN
      /\ Len(DeployGroup) = Len(S)
      /\ \A i \in 1..Len(DeployGroup) :
           /\ created[DeployGroup[i]].taskQueue = taskQueue(S[i])
           /\ created[DeployGroup[i]].state = "running"
           /\ created[DeployGroup[i]].by = LastConfigure
           /\ Occurrences(DeployGroup, DeployGroup[i]) = 1
      /\ \A w \in 1..Len(created) :
           created[w].by # LastConfigure =>
             /\ ~InSomeGroup(w)
             /\ created[w].state # "running"

C19_Witness ==
    /\ NoConfigureRunning
    /\ LastConfigure = 2
    /\ cfg[1].err = "nil"
    /\ cfg[1].vlans = <<10, 20>>
    /\ cfg[2].err = "nil"
    /\ cfg[2].vlans = <<30>>
    /\ Len(DeployGroup) = 1
    /\ created[DeployGroup[1]].taskQueue = taskQueue(30)

(***************************************************************************)
(* C20.  When a Configure execution has returned an error and no later one *)
(* has started, the pool has no deploy-service group, no worker            *)
(* constructed so far is running or in a group, every worker that was      *)
(* started has been stopped, once, and the execution called AddWorker only *)
(* up to the call that failed: not at all when the segment query failed,   *)
(* and for no segment after the one whose worker did not start.            *)
(***************************************************************************)
FailedConfigureReturned(e) ==
    /\ cfg[e].pc = "done"
    /\ cfg[e].err # "nil"
    /\ LastConfigure = e

ConstructedBy(e) == {w \in 1..Len(created) : created[w].by = e}

C20_FailedConfigureLeavesNoWorker ==
    \A e \in Execs :
      FailedConfigureReturned(e) =>
        /\ deployServiceWorkerPoolGroup \notin DOMAIN workers
        /\ \A w \in 1..Len(created) :
             /\ ~InSomeGroup(w)
             /\ created[w].state \in {"stopped", "failed"}
             /\ created[w].state = "stopped" => created[w].stops = 1
             /\ created[w].state = "failed" => created[w].stops = 0
        /\ cfg[e].err = ActivityError => ConstructedBy(e) = {}
        /\ cfg[e].err = "StartError" =>
             /\ Cardinality(ConstructedBy(e)) = cfg[e].i
             /\ cfg[e].i <= Len(cfg[e].vlans)
             /\ \A w \in ConstructedBy(e) :
                  created[w].state = "failed" <=>
                    \A v \in ConstructedBy(e) : v <= w

C20_Witness ==
    /\ FailedConfigureReturned(2)
    /\ cfg[1].err = "nil"
    /\ cfg[1].vlans = <<10, 20>>
    /\ cfg[2].err = "StartError"
    /\ cfg[2].vlans = <<10, 20>>
    /\ cfg[2].i = 1
    /\ Len(created) = 3

(***************************************************************************)
(* C21.  After a Configure execution that returned nil, the deploy-service *)
(* group holds a fallback worker: a worker whose task queue is not the     *)
(* queue of a segment.                                                     *)
(***************************************************************************)
\* the task queues that belong to one segment
SegmentQueues == {taskQueue(v) : v \in UNION {Range(l) : l \in VLANLists}}

C21_FallbackWorkerPresent ==
    (/\ NoConfigureRunning
     /\ LastConfigure >= 1
     /\ cfg[LastConfigure].err = "nil") =>
      \E i \in 1..Len(DeployGroup) :
        /\ created[DeployGroup[i]].state = "running"
        /\ created[DeployGroup[i]].taskQueue \notin SegmentQueues

(* C22.  When the start of the new worker fails, AddWorker returns the start error and the group map is exactly as it was when the call began: the failed worker is in no group and no group was created. *)
\* the goroutine t is returning from op (it still holds the mutex)
Returning(t, op) == thr[t].op = op /\ thr[t].pc = "unlock"

\* the AddWorker call of goroutine t built a worker whose Start failed
StartFailed(t) ==
    /\ thr[t].op = "AddWorker"
    /\ thr[t].w \in 1..Len(created)
    /\ created[thr[t].w].state = "failed"

C22_FailedStartLeavesMapUnchanged ==
    \A t \in Threads :
      (Returning(t, "AddWorker") /\ StartFailed(t)) =>
        /\ thr[t].err = "StartError"
        /\ workers = thr[t].before
        /\ ~InSomeGroup(thr[t].w)

C22_Witness ==
    \E t \in Threads :
      /\ Returning(t, "AddWorker")
      /\ StartFailed(t)
      /\ thr[t].group \notin DOMAIN workers
      /\ workers # NoWorkers

(* C23.  RemoveWorkers(g) stops every member of g exactly once and deletes the entry of g, leaving every other group and worker alone; on an absent group, and when the previous pool call was RemoveWorkers(g) too, it stops no worker and leaves the pool as it was. *)
\* the number of Stop calls that worker w got during the call of goroutine t
StopsDuring(t, w) == created[w].stops - thr[t].createdBefore[w].stops

\* the pool call that returned last was RemoveWorkers(group)
LastCallRemoved(group) ==
    /\ log # <<>>
    /\ log[Len(log)].op = "RemoveWorkers"
    /\ log[Len(log)].group = group

PoolUnchangedBy(t) ==
    workers = thr[t].before /\ created = thr[t].createdBefore

C23_RemoveWorkersStopsEachOnce ==
    \A t \in Threads :
      Returning(t, "RemoveWorkers") =>
        LET g == thr[t].group
            b == thr[t].before
            members == Range(Members(b, g))
        IN  /\ workers = [h \in DOMAIN b \ {g} |-> b[h]]
            /\ Len(created) = Len(thr[t].createdBefore)
            /\ \A w \in 1..Len(created) :
                 IF w \in members
                 THEN StopsDuring(t, w) = 1 /\ created[w].state = "stopped"
                 ELSE created[w] = thr[t].createdBefore[w]
            /\ g \notin DOMAIN b => PoolUnchangedBy(t)
            /\ LastCallRemoved(g) => PoolUnchangedBy(t)

C23_Witness ==
    \E t \in Threads :
      /\ Returning(t, "RemoveWorkers")
      /\ Len(Members(thr[t].before, thr[t].group)) = 2
      /\ \A w \in Range(Members(thr[t].before, thr[t].group)) :
           StopsDuring(t, w) = 1

(* C24.  Configure is RemoveWorkers(g) followed by AddWorker(g, ...) calls with no other pool call in between.  While every AddWorker so far succeeded, after N of them the group holds exactly those N workers, all started and none stopped; once one has failed and the execution has returned, the group is empty. *)
\* the workers execution e added with success
AddedBy(e) == {w \in ConstructedBy(e) : created[w].state # "failed"}

\* execution e has removed the group and no call of it has failed
AddingWithoutFailure(e) ==
    /\ LastConfigure = e
    /\ cfg[e].pc = "add_worker" \/ (cfg[e].pc = "done" /\ cfg[e].err = "nil")
    /\ AddedBy(e) = ConstructedBy(e)

\* an AddWorker call of execution e failed and the execution has returned
ReturnedAfterFailedAdd(e) ==
    /\ LastConfigure = e
    /\ cfg[e].pc = "done"
    /\ AddedBy(e) # ConstructedBy(e)

C24_RemoveThenAddsLeavesExactlyN ==
    \A e \in Execs :
      /\ AddingWithoutFailure(e) =>
           /\ Len(DeployGroup) = Cardinality(AddedBy(e))
           /\ Range(DeployGroup) = AddedBy(e)
           /\ \A w \in AddedBy(e) :
                created[w].state = "running" /\ created[w].stops = 0
      /\ ReturnedAfterFailedAdd(e) =>
           /\ DeployGroup = <<>>
           /\ cfg[e].err = "StartError"

C24_Witness ==
    /\ cfg[1].pc = "done"
    /\ cfg[1].err = "nil"
    /\ cfg[1].vlans = <<30>>
    /\ AddingWithoutFailure(2)
    /\ cfg[2].pc = "add_worker"
    /\ Cardinality(AddedBy(2)) = 2
    /\ Len(DeployGroup) = 2

(* C25.  Once a worker of the pool (main or auxiliary) has reported a fatal error and a caller is blocked in WorkerPool.Error(), the call eventually returns, and it returns the first fatal error reported. *)
\* a fatal error is reported and a caller is blocked in Error()
FatalReportedToBlockedCaller ==
    reports # <<>> /\ errorCall.pc = "receiving"

\* Error() has returned the fatal error that was reported first
ReturnedFirstFatal ==
    /\ errorCall.pc = "returned"
    /\ reports # <<>>
    /\ errorCall.result = reports[1].err

C25_ErrorReturnsFirstFatal ==
    FatalReportedToBlockedCaller ~> ReturnedFirstFatal

(* C26.  Every error that Deploy or one of its sub-flows returns is wrapped with the machine id of the attempt, whether it comes from a failed precondition, a failed remote operation or a closed event channel. *)
C26_ErrorsCarryMachineID ==
    Errored =>
      /\ err.systemID \in Machines
      /\ root = "deploy" => err.systemID = input.SystemID

(* C27.  Every remote operation of the deployment flows (propose-ip, claim-ips, get-power-params, get-user-info, check-disk-status, set-deploy-params, set-boot-order, update-node-status, power-on, power-cycle) is issued with an explicit bounded timeout set on the call. *)
RemoteOperations ==
    {"propose-ip", "claim-ips", "get-power-params", "get-user-info",
     "check-disk-status", "set-deploy-params", "set-boot-order",
     "update-node-status", "power-on", "power-cycle"}

C27_EveryRemoteOperationHasTimeout ==
    \A i \in 1..Len(calls) :
      calls[i].op \in RemoteOperations => calls[i].Timeout > 0

(* C28.  The claim-ips request of the address-allocation sub-flow carries the machine id of the attempt, the same machine id that was sent to propose-ip. *)
C28_ClaimCarriesMachineID ==
    \A i \in 1..Len(calls) :
      calls[i].op = "claim-ips" =>
        /\ calls[i].SystemID \in Machines
        /\ \E j \in 1..(i - 1) :
             /\ calls[j].op = "propose-ip"
             /\ calls[j].SystemID = calls[i].SystemID

(* C30.  With goroutines calling AddWorker and RemoveWorkers concurrently on one pool, whenever no call holds the mutex the workers in the group map are exactly the workers that were started and have not been stopped, each recorded once; and no worker is ever stopped twice. *)
\* the workers recorded in the group map
InMap == {w \in 1..Len(created) : InSomeGroup(w)}

\* the workers that were started with success and have not been stopped
StartedNotStopped == {w \in 1..Len(created) : created[w].state = "running"}

\* the number of places of the map that hold worker w
Recorded(w) ==
    LET RECURSIVE Sum(_)
        Sum(G) == IF G = {} THEN 0
                  ELSE LET g == CHOOSE h \in G : TRUE
                       IN  Occurrences(workers[g], w) + Sum(G \ {g})
    IN  Sum(DOMAIN workers)

C30_MapHoldsStartedNotStopped ==
    /\ mutex = 0 =>
         /\ InMap = StartedNotStopped
         /\ \A w \in InMap : Recorded(w) = 1
    /\ \A w \in 1..Len(created) : created[w].stops <= 1

C30_Witness ==
    /\ mutex = 0
    /\ \E w \in InMap : created[w].state = "running"
    /\ \E w \in 1..Len(created) :
         created[w].state = "stopped" /\ ~InSomeGroup(w)
    /\ Len(log) = 3

(* C29.  With Configure executions that overlap, once all of them have returned the deploy-service group is empty or is exactly the workers of the whole segment list of one execution that returned nil: one worker per segment of that list, in order, all built by that execution and running. *)
\* the group is the complete list of workers of execution e
GroupBuiltBy(e) ==
    /\ Len(DeployGroup) = Len(cfg[e].vlans)
    /\ \A i \in 1..Len(DeployGroup) :
         /\ created[DeployGroup[i]].by = e
         /\ created[DeployGroup[i]].taskQueue = taskQueue(cfg[e].vlans[i])
         /\ created[DeployGroup[i]].state = "running"

C29_OverlappingConfiguresLeaveWholeGroup ==
    (NoConfigureRunning /\ LastConfigure >= 1) =>
      \/ DeployGroup = <<>>
      \/ \E e \in Execs :
           /\ cfg[e].pc = "done"
           /\ cfg[e].err = "nil"
           /\ GroupBuiltBy(e)

(* C31.  An execution for one machine is independent of the events of another machine: a signal delivered on a channel {kind}:m2 is never consumed by the execution for m1, its delivery changes nothing of that execution (no step, no failure, no remote operation), and a wait of the execution proceeds only on a signal, or on the closing, of its own channel. *)
OtherMachine == "m2"

OtherChannels == {ChannelName(k, OtherMachine) : k \in Kinds}

OwnChannels == {ChannelName(k, SystemID) : k \in Kinds}

IsPrefix(a, b) == Len(a) <= Len(b) /\ SubSeq(b, 1, Len(a)) = a

\* no step takes a signal out of a channel of the other machine
OtherEventsNeverConsumed ==
    \A c \in OtherChannels : IsPrefix(mailbox[c], mailbox'[c])

\* a delivery for the other machine leaves the execution, its own channels
\* and its call log as they are
OtherDeliveryChangesNothing ==
    (\E c \in OtherChannels : mailbox'[c] # mailbox[c]) =>
      /\ ExecutionVars' = ExecutionVars
      /\ \A c \in OwnChannels : mailbox'[c] = mailbox[c]
      /\ closed' = closed

\* a wait goes on only with a signal, or the closing, of its own channel,
\* and it takes exactly that signal
WaitNeedsOwnEvent ==
    (pc \in WaitPositions /\ ExecutionVars' # ExecutionVars) =>
      LET own == ChannelName(WaitKind(pc), SystemID) IN
      \/ /\ HasSignal(own)
         /\ mailbox'[own] = Tail(mailbox[own])
         /\ \A c \in Channels \ {own} : mailbox'[c] = mailbox[c]
      \/ /\ SignalClosed(own)
         /\ mailbox' = mailbox

C31_OtherMachineEventsIgnored ==
    /\ [][OtherEventsNeverConsumed]_vars
    /\ [][OtherDeliveryChangesNothing]_vars
    /\ [][WaitNeedsOwnEvent]_vars

C31_Witness ==
    /\ root = "deploy"
    /\ pc \in WaitPositions
    /\ mailbox[ChannelName(WaitKind(pc), SystemID)] = <<>>
    /\ mailbox[ChannelName(WaitKind(pc), OtherMachine)] # <<>>

(* C32.  Deploy issues get-power-params and get-user-info together, before it awaits either, and awaits both whatever the order in which they complete: nothing else (permission check, check-disk-status, set-deploy-params or any later operation) happens before both have completed with success, and when either has failed the two calls stay the only remote operations of the attempt and Deploy ends in that error. *)
PrecheckPositions ==
    {"deploy_start", "deploy_get_power_params", "deploy_get_user_info"}

\* the two calls of the precheck are the first two of the log, issued in one
\* step
PrecheckIssuedTogether ==
    pc # "deploy_start" =>
      /\ Len(calls) >= 2
      /\ calls[1].op = "get-power-params"
      /\ calls[2].op = "get-user-info"

\* Deploy is past the barrier: it has decided on the permission or issued a
\* later call
PastPrecheck ==
    \/ pc \notin PrecheckPositions \cup {"done"}
    \/ Len(calls) > 2
    \/ err.kind = ErrInsufficientUserPermissions
    \/ pc = "done" /\ err.kind # ActivityError

PrecheckFailed ==
    /\ Len(calls) >= 2
    /\ calls[1].result = "err" \/ calls[2].result = "err"

C32_PrecheckBarrier ==
    root = "deploy" =>
      /\ PrecheckIssuedTogether
      /\ PastPrecheck =>
           /\ calls[1].result = "ok" /\ calls[2].result = "ok"
           /\ powerParamsFuture = "ok" /\ userInfoFuture = "ok"
      /\ PrecheckFailed =>
           /\ Len(calls) = 2
           /\ pc \in PrecheckPositions \cup {"done"}
           /\ pc = "done" => err.kind = ActivityError
      /\ pc = "deploy_get_power_params" => Len(calls) = 2

\* get-user-info completed first, with success; Deploy still awaits
\* get-power-params and has issued nothing else
C32_Witness ==
    /\ root = "deploy"
    /\ pc = "deploy_get_power_params"
    /\ powerParamsFuture = "pending"
    /\ userInfoFuture = "ok"
    /\ Len(calls) = 2

(* C33.  Events that arrive early are not lost: with the events of the stage delivered in any order, also before the sub-flow reaches their waits, once the machine has delivered every required event the OS-boot sub-flow eventually returns nil. *)
\* the sub-flow is waiting and the machine has sent every event of the stage
AllRequiredDelivered == pc \in WaitPositions /\ owed = {}

SubflowReturnedNil == pc = "done" /\ err = NoError

C33_EarlyEventsNotLost == AllRequiredDelivered ~> SubflowReturnedNil

(* C34.  The required boot-asset set has unique-set semantics: when the two required names of the ephemeral variant coincide, a single boot-asset event of that name completes the boot-asset wait. *)
\* the two required names of the running ephemeral sub-flow are the same
RequiredNamesCoincide ==
    /\ childInput.DeployParams # ZeroDeployParams
    /\ EphemeralBootAssets(childInput.DeployParams)[1]
         = EphemeralBootAssets(childInput.DeployParams)[2]

C34_CoincidingNamesNeedOneEvent ==
    (/\ pc = "eph_assets"
     /\ RequiredNamesCoincide
     /\ consumed.assets # <<>>) =>
      \A i \in 1..Len(consumed.assets) :
        consumed.assets[i] # EphemeralBootAssets(childInput.DeployParams)[1]

(* C35.  After a successful Configure the deploy-service group holds at most one worker per task queue, also when the segment list names a segment more than once. *)
C35_OneWorkerPerTaskQueue ==
    (/\ NoConfigureRunning
     /\ LastConfigure >= 1
     /\ cfg[LastConfigure].err = "nil") =>
      \A i, j \in 1..Len(DeployGroup) :
        created[DeployGroup[i]].taskQueue = created[DeployGroup[j]].taskQueue
          => i = j

\* C35, amended.  After a successful Configure the deploy-service group holds, for every task queue, as many workers as the segment list names the segment of that queue: one worker per task queue when the list repeats no segment, one per occurrence when it does.
WorkersOn(q) ==
    {i \in 1..Len(DeployGroup) : created[DeployGroup[i]].taskQueue = q}

C35_OneWorkerPerListedSegment ==
    (/\ NoConfigureRunning
     /\ LastConfigure >= 1
     /\ cfg[LastConfigure].err = "nil") =>
      LET S == cfg[LastConfigure].vlans IN
      /\ \A q \in SegmentQueues \ {taskQueue(v) : v \in Range(S)} :
           WorkersOn(q) = {}
      /\ \A v \in Range(S) :
           Cardinality(WorkersOn(taskQueue(v))) = Occurrences(S, v)

C35_Witness ==
    /\ NoConfigureRunning
    /\ LastConfigure = 1
    /\ cfg[1].err = "nil"
    /\ cfg[1].vlans = <<10, 10>>
    /\ Cardinality(WorkersOn(taskQueue(10))) = 2

(* C36.  The update-node-status call at the end of a successful Deploy identifies the machine: the SystemID of its input is the machine id of the Deploy request. *)
C36_StatusUpdateNamesMachine ==
    root = "deploy" =>
      \A i \in 1..Len(calls) :
        calls[i].op = "update-node-status" =>
          calls[i].SystemID = input.SystemID

(* C37.  Deploy decides every ephemeral-dependent step from the ephemeral flag of the request alone, whatever flag the resolved deployment parameters carry: check-disk-status is issued iff the request's flag is false, set-boot-order and the installed-OS boot run iff it is false; so the installed-OS boot runs only in attempts whose disk status was checked and found not diskless. *)
\* Deploy has passed the point where check-disk-status is decided
PastDiskDecision == Issued("set-deploy-params")

\* Deploy has passed the point where the installed-OS phase is decided
PastInstalledDecision ==
    \/ pc \in LaterPhasePositions
    \/ Issued("set-boot-order")
    \/ Issued("update-node-status")

InstalledPhaseEntered ==
    \/ pc \in InstPositions \cup {"deploy_set_boot_order"}
    \/ Issued("set-boot-order")
    \/ "deploy-installed-os" \in Range(completed)

C37_RequestFlagDecides ==
    root = "deploy" =>
      /\ Issued("check-disk-status") => ~input.EphemeralDeploy
      /\ PastDiskDecision =>
           (Issued("check-disk-status") <=> ~input.EphemeralDeploy)
      /\ PastInstalledDecision =>
           (InstalledPhaseEntered <=> ~input.EphemeralDeploy)
      /\ Issued("update-node-status") =>
           /\ Issued("set-boot-order") <=> ~input.EphemeralDeploy
           /\ "deploy-installed-os" \in Range(completed)
                <=> ~input.EphemeralDeploy
      /\ InstalledPhaseEntered =>
           /\ Succeeded("check-disk-status")
           /\ ~diskStatus.Diskless

\* the request is not ephemeral, the resolved parameters say ephemeral, and
\* the installed-OS boot runs
C37_Witness ==
    /\ root = "deploy"
    /\ ~input.EphemeralDeploy
    /\ deployParams.EphemeralDeploy
    /\ pc \in InstPositions
    /\ Succeeded("check-disk-status")

(* C38.  Pool operations only affect the named group: RemoveWorkers(g) stops and removes no worker of any other group and never stops the main worker, and AddWorker(g, ...) leaves the members of every other group as they were and appends to g without removing or stopping a member of g, even one bound to the same task queue. *)
\* the group named by the pool call that holds the mutex
NamedGroup == thr[mutex].group

\* no step changes the entry of a group that the running call does not name
OtherGroupsKept ==
    \A h \in Groups :
      (mutex = 0 \/ NamedGroup # h) =>
        /\ (h \in DOMAIN workers') = (h \in DOMAIN workers)
        /\ Members(workers', h) = Members(workers, h)

\* a worker record changes only by the Stop of RemoveWorkers on its own group
OnlyNamedMembersStopped ==
    \A w \in 1..Len(created) :
      created'[w] # created[w] =>
        /\ mutex # 0
        /\ thr[mutex].op = "RemoveWorkers"
        /\ w \in Range(Members(workers, NamedGroup))

\* AddWorker only extends: the members and the workers that exist stay
AddWorkerOnlyAppends ==
    (mutex # 0 /\ thr[mutex].op = "AddWorker") =>
      /\ IsPrefix(Members(workers, NamedGroup), Members(workers', NamedGroup))
      /\ Len(Members(workers', NamedGroup))
           <= Len(Members(workers, NamedGroup)) + 1
      /\ Len(created') >= Len(created)
      /\ SubSeq(created', 1, Len(created)) = created

\* no step stops the main worker
MainNeverStopped == main'.stops = main.stops /\ main'.state # "stopped"

C38_PoolCallsTouchNamedGroupOnly ==
    /\ [][OtherGroupsKept]_vars
    /\ [][OnlyNamedMembersStopped]_vars
    /\ [][AddWorkerOnlyAppends]_vars
    /\ [][MainNeverStopped]_vars

\* an AddWorker returns having appended to a group that already held a
\* running worker on the same task queue, while the other group holds a
\* running worker too and the main worker runs
C38_Witness ==
    \E t \in Threads :
      /\ Returning(t, "AddWorker")
      /\ thr[t].err = "nil"
      /\ main.state = "running"
      /\ LET g == thr[t].group
             old == Members(thr[t].before, g)
         IN  /\ Len(old) >= 1
             /\ Members(workers, g) = Append(old, thr[t].w)
             /\ created[old[1]].state = "running"
             /\ created[old[1]].taskQueue = created[thr[t].w].taskQueue
             /\ \E h \in DOMAIN workers \ {g} :
                  /\ workers[h] # <<>>
                  /\ workers[h] = thr[t].before[h]
                  /\ created[workers[h][1]].state = "running"

(***************************************************************************)
(* DHCPService.configure, the configure-dhcp-service workflow.  Each step  *)
(* is a local activity run with ScheduleToCloseTimeout 30 s: the call      *)
(* returns nil after the body ran, or a timeout error, raised either       *)
(* before the body was started or after it has run.                        *)
(***************************************************************************)
\* what run(ctx, fn) can produce
RunOutcomes ==
    {[bodyRan |-> TRUE, err |-> "nil"],
     [bodyRan |-> FALSE, err |-> "TimeoutError"],
     [bodyRan |-> TRUE, err |-> "TimeoutError"]}

ConfigureEntries == {"configure:true", "configure:false"}

DHCPConfigureCount ==
    Cardinality({i \in 1..Len(dhcpLog) : dhcpLog[i] \in ConfigureEntries})

\* the workflow starts with the decoded DHCPServiceConfigParam
DHCPConfigure(enabled) ==
    /\ dhcp.pc \in {"idle", "returned"}
    /\ DHCPConfigureCount < MaxDHCPConfigures
    /\ dhcp' = [pc |-> IF enabled THEN "start" ELSE "stop",
                Enabled |-> enabled, failed |-> "none", err |-> "nil"]
    /\ dhcpLog' = Append(dhcpLog, IF enabled THEN "configure:true"
                                  ELSE "configure:false")
    /\ UNCHANGED <<root, input, pc, futureVars, deployLocals, childInput,
                   allocLocals, bootLocals, envVars, calls, completed, err,
                   poolVars, callVars, fatalVars, running>>

\* one run(ctx, fn) of the execution: the body, when it ran, is logged
RunStep(step, o) ==
    /\ dhcpLog' = IF o.bodyRan THEN Append(dhcpLog, step) ELSE dhcpLog
    /\ UNCHANGED <<root, input, pc, futureVars, deployLocals, childInput,
                   allocLocals, bootLocals, envVars, calls, completed, err,
                   poolVars, callVars, fatalVars>>

\* if !config.Enabled { return run(ctx, s.stop) }; stop sets running = false
DHCPRunStop ==
    /\ dhcp.pc = "stop"
    /\ \E o \in RunOutcomes :
         /\ RunStep("stop", o)
         /\ running' = IF o.bodyRan THEN FALSE ELSE running
         /\ dhcp' = [dhcp EXCEPT !.pc = "returned", !.err = o.err,
                                 !.failed = IF o.err = "nil" THEN "none"
                                            ELSE "stop"]

\* a configure that goes on to update after a failed start
DHCPRunStart_IgnoreError ==
    /\ dhcp.pc = "start"
    /\ \E o \in RunOutcomes :
         /\ RunStep("start", o)
         /\ running' = IF o.bodyRan THEN TRUE ELSE running
         /\ dhcp' = [dhcp EXCEPT !.pc = "update", !.err = o.err,
                                 !.failed = IF o.err = "nil" THEN "none"
                                            ELSE "start"]

\* err := run(ctx, s.start); if err != nil { return err }; start sets
\* running = true
DHCPRunStart ==
    /\ dhcp.pc = "start"
    /\ \E o \in RunOutcomes :
         /\ RunStep("start", o)
         /\ running' = IF o.bodyRan THEN TRUE ELSE running
         /\ dhcp' = [dhcp EXCEPT !.pc = IF o.err = "nil" THEN "update"
                                        ELSE "returned",
                                 !.err = o.err,
                                 !.failed = IF o.err = "nil" THEN "none"
                                            ELSE "start"]

\* return run(ctx, s.update); update changes no field of the service
DHCPRunUpdate ==
    /\ dhcp.pc = "update"
    /\ \E o \in RunOutcomes :
         /\ RunStep("update", o)
         /\ running' = running
         /\ dhcp' = [dhcp EXCEPT !.pc = "returned", !.err = o.err,
                                 !.failed = IF o.err = "nil" THEN dhcp.failed
                                            ELSE "update"]

DHCPInit ==
    /\ root = "allocate-ip"
    /\ Init

DHCPNext ==
    \/ \E enabled \in BOOLEAN : DHCPConfigure(enabled)
    \/ DHCPRunStop
    \/ DHCPRunStart
    \/ DHCPRunUpdate

DHCPSpec == DHCPInit /\ [][DHCPNext]_vars

(* C39.  DHCPService.configure with Enabled=false runs only the stop step (start and update are not run, and the service ends not running); with Enabled=true it runs start and then update, in that order, update is not run if start fails, and after a successful run the service is marked running. *)
\* the index of the configure entry of the current execution
LastConfigureEntry ==
    CHOOSE i \in 1..Len(dhcpLog) :
      /\ dhcpLog[i] \in ConfigureEntries
      /\ \A j \in (i + 1)..Len(dhcpLog) : dhcpLog[j] \notin ConfigureEntries

\* the step bodies that ran in the current execution, in order
StepsRun == SubSeq(dhcpLog, LastConfigureEntry + 1, Len(dhcpLog))

DHCPReturned == dhcp.pc = "returned"

\* which steps may have run, and in which order, at any point of an execution
StepsInOrder ==
    dhcp.pc # "idle" =>
      IF dhcp.Enabled
      THEN /\ StepsRun \in {<<>>, <<"start">>, <<"start", "update">>}
           /\ dhcp.failed = "start" => "update" \notin Range(StepsRun)
           /\ (DHCPReturned /\ dhcp.err = "nil") =>
                /\ StepsRun = <<"start", "update">>
                /\ running
      ELSE StepsRun \in {<<>>, <<"stop">>}

====
